---- MODULE Spec2Model ----
(***************************************************************************)
(* 2.5D tensor-parallel operations of                                      *)
(* colossalai/nn/layer/parallel_2p5d/_operation.py, run by every rank of   *)
(* one tesseract_dim x tesseract_dim grid slice.  A rank is a sequential   *)
(* process; it is suspended exactly at its collective calls, which are     *)
(* blocking rendezvous over a row group or a column group.                 *)
(*                                                                         *)
(* Tensors are records [shape, data] with data the row-major contents, so  *)
(* reshape keeps data and replaces shape, as torch does for contiguous     *)
(* tensors.  Entries are integers: the mixed-precision cast and the        *)
(* floating-point tolerance are outside this model.                        *)
(***************************************************************************)
EXTENDS Integers, Sequences, FiniteSets, TLC

(* ------------------------------ bounds -------------------------------- *)

\* largest tesseract_dim run (grids 1x1 .. MaxDim x MaxDim)
MaxDim == 2

\* input tiles have entries v, v+1, ... with v in 1..MaxVal
MaxVal == 1

\* tile extents: A tiles are [Batch, TileM, TileK], B tiles [TileK, TileN]
Batch == 2

TileM == 1

TileK == 2

TileN == 3

\* number of depth slices of the grid (dep_rank in 0..Depth-1)
Depth == 2

\* pipeline_parallel_size and data-parallel size of the run
PipelineSize == 1

DataSize == 1

(* ------------------------------ tensors ------------------------------- *)

RECURSIVE Prod(_)
Prod(s) == IF s = <<>> THEN 1 ELSE Head(s) * Prod(Tail(s))

Numel(shape) == Prod(shape)

LastDim(shape) == shape[Len(shape)]

\* the sum of a sequence of numbers
RECURSIVE SumSeq(_)
SumSeq(s) == IF s = <<>> THEN 0 ELSE Head(s) + SumSeq(Tail(s))

\* torch.zeros(shape) / torch.zeros_like
Zeros(shape) == [shape |-> shape, data |-> [k \in 1..Numel(shape) |-> 0]]

\* a buffer of the given shape holding g everywhere
Fill(shape, g) == [shape |-> shape, data |-> [k \in 1..Numel(shape) |-> g]]

\* X.reshape((-1, X.shape[-1]))
Reshape2D(X) ==
    [shape |-> <<Numel(X.shape) \div LastDim(X.shape), LastDim(X.shape)>>,
     data |-> X.data]

\* X.reshape(shape)
Reshape(X, shape) == [shape |-> shape, data |-> X.data]

\* element (i, j), 1-based, of a 2D tensor
At(X, i, j) == X.data[(i - 1) * X.shape[2] + j]

\* X.transpose(0, 1) of a 2D tensor
Transpose(X) ==
    LET m == X.shape[1]
        n == X.shape[2]
    IN  [shape |-> <<n, m>>,
         data |-> [k \in 1..(m * n) |->
                     At(X, ((k - 1) % m) + 1, ((k - 1) \div m) + 1)]]

\* torch.matmul of two 2D tensors
Matmul(X, Y) ==
    LET m == X.shape[1]
        n == Y.shape[2]
        Entry(k) ==
            LET i == ((k - 1) \div n) + 1
                j == ((k - 1) % n) + 1
            IN  SumSeq([t \in 1..X.shape[2] |-> At(X, i, t) * At(Y, t, j)])
    IN  [shape |-> <<m, n>>, data |-> [k \in 1..(m * n) |-> Entry(k)]]

\* elementwise sum of two tensors of one shape
TAdd(X, Y) == [shape |-> X.shape, data |-> [k \in 1..Len(X.data) |-> X.data[k] + Y.data[k]]]

\* torch.addmm(C, X, Y, out=C): C + X @ Y
Addmm(C, X, Y) == TAdd(C, Matmul(X, Y))

\* input + bias with bias broadcast along the last dimension
AddBias(X, b) ==
    LET n == LastDim(X.shape)
    IN  [shape |-> X.shape,
         data |-> [k \in 1..Len(X.data) |-> X.data[k] + b.data[((k - 1) % n) + 1]]]

\* torch.sum(X, dim=tuple(range(X.ndim - 1))): sum over all leading dimensions
SumLeading(X) ==
    LET n == LastDim(X.shape)
        rows == Numel(X.shape) \div n
        Col(j) == SumSeq([t \in 1..rows |-> X.data[(t - 1) * n + j]])
    IN  [shape |-> <<n>>, data |-> [j \in 1..n |-> Col(j)]]

\* Python's None
NoneT == [none |-> TRUE]

\* contents torch.empty may hand out
Uninit == {0, -1}

\* A buffer whose contents are not determined (torch.empty; the buffer a reduce
\* leaves on a rank that is not its destination): any tensor of `may`.  Which one
\* is decided where the buffer is read.
Unspecified(may) == [unspec |-> TRUE, may |-> may]

\* torch.empty(shape)
Empty(shape) == Unspecified({Fill(shape, g) : g \in Uninit})

\* the contents a read of buffer X may find
Read(X) == IF "unspec" \in DOMAIN X THEN X.may ELSE {X}

(* ------------------------- grid and runtime --------------------------- *)

VARIABLES
    dim,      \* tesseract_dim of the run
    fn,       \* the autograd Function every rank runs: "AB", "ABT", "ATB"
    slice,    \* [dep_rank, data_parallel_rank, pipeline_parallel_rank] of the grid slice
    inp,      \* what the caller hands each rank: input tiles and the upstream gradient
    proc      \* per rank: its locals, its position and its pending collective

vars == <<dim, fn, slice, inp, proc>>

\* coordinates <<row_rank, col_rank>> of the ranks of a d x d slice
Ranks(d) == (0..(d - 1)) \X (0..(d - 1))

\* tensor_parallel_size of a run: tesseract_dim^2 * depth
TensorParallelSize(d) == d * d * Depth

\* global rank of the rank at grid coordinate rk of the slice
GlobalRank(rk) ==
    rk[2] + rk[1] * dim + slice.dep_rank * (dim * dim)
      + slice.data_parallel_rank * PipelineSize * TensorParallelSize(dim)
      + slice.pipeline_parallel_rank * TensorParallelSize(dim)

\* gpc.get_group(mode) on rank rk: the ranks of its grid row (ROW) or column (COL)
Group(mode, rk) ==
    IF mode = "ROW" THEN {q \in Ranks(dim) : q[1] = rk[1]}
                    ELSE {q \in Ranks(dim) : q[2] = rk[2]}

\* gpc.get_local_rank(mode) on rank rk: its position in that group
LocalRank(mode, rk) == IF mode = "ROW" THEN rk[2] ELSE rk[1]

\* the member of rk's group at position p
Member(mode, rk, p) == CHOOSE q \in Group(mode, rk) : LocalRank(mode, q) = p

\* the metadata arguments the layer passes to forward on rank rk
Metadata(rk) ==
    [tesseract_dim |-> dim,
     row_rank |-> rk[1],
     col_rank |-> rk[2],
     dep_rank |-> slice.dep_rank,
     row_parallel_mode |-> "ROW",
     col_parallel_mode |-> "COL",
     data_parallel_rank |-> slice.data_parallel_rank,
     pipeline_parallel_rank |-> slice.pipeline_parallel_rank,
     pipeline_parallel_size |-> PipelineSize,
     tensor_parallel_size |-> TensorParallelSize(dim)]

(* ----------------------------- collectives ---------------------------- *)

NoCall == [kind |-> "none", mode |-> "", root |-> -1, buf |-> NoneT, list |-> <<>>]

\* rank state after issuing a collective: blocked until the group completes it
Issue(p, at, kind, mode, root, buf) ==
    [p EXCEPT !.pc = "wait", !.at = at,
              !.call = [kind |-> kind, mode |-> mode, root |-> root,
                        buf |-> buf, list |-> <<>>]]

\* every member of g waits in a collective of this kind on this group
AllWaiting(g, kind, mode) ==
    \A q \in g : /\ proc[q].pc = "wait"
                 /\ proc[q].call.kind = kind
                 /\ proc[q].call.mode = mode

\* the members agree on the root, and the root is a rank of the group
RootOf(g) == CHOOSE q \in g : TRUE

SameRoot(g) ==
    /\ \A q \in g : proc[q].call.root = proc[RootOf(g)].call.root
    /\ \E q \in g : GlobalRank(q) = proc[RootOf(g)].call.root

RootMember(g) == CHOOSE q \in g : GlobalRank(q) = proc[RootOf(g)].call.root

RECURSIVE SumBufs(_)
SumBufs(g) ==
    LET q == CHOOSE x \in g : TRUE
    IN  IF Cardinality(g) = 1 THEN proc[q].call.buf
        ELSE TAdd(proc[q].call.buf, SumBufs(g \ {q}))

\* dist.all_gather: every member receives the members' tensors in group order
AllGather(mode, rk) ==
    LET g == Group(mode, rk)
        gathered == [p \in 1..Cardinality(g) |-> proc[Member(mode, rk, p - 1)].call.buf]
    IN  /\ AllWaiting(g, "all_gather", mode)
        /\ proc' = [q \in DOMAIN proc |->
                      IF q \in g
                      THEN [proc[q] EXCEPT !.pc = "run", !.call.list = gathered]
                      ELSE proc[q]]
        /\ UNCHANGED <<dim, fn, slice, inp>>

\* dist.broadcast: every member's buffer becomes the source's
Broadcast(mode, rk) ==
    LET g == Group(mode, rk)
    IN  /\ AllWaiting(g, "broadcast", mode)
        /\ SameRoot(g)
        /\ proc' = [q \in DOMAIN proc |->
                      IF q \in g
                      THEN [proc[q] EXCEPT !.pc = "run",
                                           !.call.buf = proc[RootMember(g)].call.buf]
                      ELSE proc[q]]
        /\ UNCHANGED <<dim, fn, slice, inp>>

\* dist.reduce: the destination's buffer becomes the sum; the buffer of any other
\* member is unspecified (left as it was, or the sum)
Reduce(mode, rk) ==
    LET g == Group(mode, rk)
        total == SumBufs(g)
    IN  /\ AllWaiting(g, "reduce", mode)
        /\ SameRoot(g)
        /\ proc' = [q \in DOMAIN proc |->
                      IF q \in g
                      THEN [proc[q] EXCEPT
                              !.pc = "run",
                              !.call.buf =
                                 IF q = RootMember(g) THEN total
                                 ELSE Unspecified({proc[q].call.buf, total})]
                      ELSE proc[q]]
        /\ UNCHANGED <<dim, fn, slice, inp>>

(* ------------------------- autograd plumbing -------------------------- *)

\* the parameters of forward after ctx, for the three matmul Functions
MatmulForwardParams ==
    <<"A", "B", "tesseract_dim", "out_shape", "row_rank", "col_rank", "dep_rank",
      "row_parallel_mode", "col_parallel_mode", "data_parallel_rank",
      "pipeline_parallel_rank", "pipeline_parallel_size", "tensor_parallel_size">>

\* the parameters of Add_Bias_2p5D.forward after ctx
Add_Bias_ForwardParams ==
    <<"input", "bias", "output_size_per_partition", "tesseract_dim", "row_rank",
      "col_rank", "dep_rank", "col_parallel_mode", "skip_bias_add", "data_parallel_rank",
      "pipeline_parallel_rank", "pipeline_parallel_size", "tensor_parallel_size">>

ForwardParams(f) == IF f = "Bias" THEN Add_Bias_ForwardParams ELSE MatmulForwardParams

\* the parameters of forward that are tensors
TensorParams == {"A", "B", "input", "bias"}

\* a Function's forward is entered on rank state p with these arguments
Call(p, f, A, B, out_shape, arg, phase) ==
    [p EXCEPT !.pc = "run", !.at = "start", !.f = f, !.phase = phase,
              !.A = A, !.B = B, !.out_shape = out_shape, !.arg = arg,
              !.C = NoneT, !.i = 0, !.A_list = <<>>, !.call = NoCall]

\* ctx.save_for_backward(A, B), kept only for the call the engine made (phase 0):
\* the context of a forward called from a backward is dropped with that call
SaveForBackward(p, A, B) ==
    IF p.phase = 0 THEN [p EXCEPT !.ctx = [saved_tensors |-> <<A, B>>]] ELSE p

\* the ctx.* assignments at the end of a matmul forward
SetCtx(p) ==
    [saved_tensors |-> p.ctx.saved_tensors,
     tesseract_dim |-> p.arg.tesseract_dim,
     row_rank |-> p.arg.row_rank,
     col_rank |-> p.arg.col_rank,
     dep_rank |-> p.arg.dep_rank,
     row_parallel_mode |-> p.arg.row_parallel_mode,
     col_parallel_mode |-> p.arg.col_parallel_mode,
     A_shape |-> p.A_shape,
     B_shape |-> p.B_shape,
     data_parallel_rank |-> p.arg.data_parallel_rank,
     pipeline_parallel_rank |-> p.arg.pipeline_parallel_rank,
     pipeline_parallel_size |-> p.arg.pipeline_parallel_size,
     tensor_parallel_size |-> p.arg.tensor_parallel_size]

\* the parameters of a matmul forward that are neither tensors nor out_shape, in
\* the order of the signature
MetadataParams ==
    SelectSeq(MatmulForwardParams, LAMBDA n : n \notin {"A", "B", "out_shape"})

\* mutant: backward hands ctx.col_rank and ctx.row_rank in each other's position
SiblingMetadata_swapped(ctx) ==
    <<ctx.tesseract_dim, ctx.col_rank, ctx.row_rank, ctx.dep_rank,
      ctx.row_parallel_mode, ctx.col_parallel_mode, ctx.data_parallel_rank,
      ctx.pipeline_parallel_rank, ctx.pipeline_parallel_size, ctx.tensor_parallel_size>>

\* the arguments a backward hands to apply() of a sibling besides the operands and
\* the out_shape, in the order it writes them
SiblingMetadata(ctx) ==
    <<ctx.tesseract_dim, ctx.row_rank, ctx.col_rank, ctx.dep_rank,
      ctx.row_parallel_mode, ctx.col_parallel_mode, ctx.data_parallel_rank,
      ctx.pipeline_parallel_rank, ctx.pipeline_parallel_size, ctx.tensor_parallel_size>>

\* the metadata a sibling forward receives from a backward: each positional
\* argument bound to the parameter in its position
CtxArgs(ctx) ==
    [n \in {MetadataParams[k] : k \in 1..Len(MetadataParams)} |->
        SiblingMetadata(ctx)[CHOOSE k \in 1..Len(MetadataParams) : MetadataParams[k] = n]]

\* mutant: the second call of Matmul_AB_2p5D.backward with its operands exchanged
Matmul_AB_backward_swapped(ctx, output_grad) ==
    <<[f |-> "ABT", A |-> output_grad, B |-> ctx.saved_tensors[2], out_shape |-> ctx.A_shape],
      [f |-> "ATB", A |-> output_grad, B |-> ctx.saved_tensors[1], out_shape |-> ctx.B_shape]>>

\* Matmul_AB_2p5D.backward: its two sibling calls <<function, A, B, out_shape>>
Matmul_AB_backward(ctx, output_grad) ==
    <<[f |-> "ABT", A |-> output_grad, B |-> ctx.saved_tensors[2], out_shape |-> ctx.A_shape],
      [f |-> "ATB", A |-> ctx.saved_tensors[1], B |-> output_grad, out_shape |-> ctx.B_shape]>>

\* Matmul_ABT_2p5D.backward
Matmul_ABT_backward(ctx, output_grad) ==
    <<[f |-> "AB", A |-> output_grad, B |-> ctx.saved_tensors[2], out_shape |-> ctx.A_shape],
      [f |-> "ATB", A |-> output_grad, B |-> ctx.saved_tensors[1], out_shape |-> ctx.B_shape]>>

\* mutant: the first call of Matmul_ATB_2p5D.backward with its operands exchanged
Matmul_ATB_backward_swapped(ctx, output_grad) ==
    <<[f |-> "ABT", A |-> output_grad, B |-> ctx.saved_tensors[2], out_shape |-> ctx.A_shape],
      [f |-> "AB", A |-> ctx.saved_tensors[1], B |-> output_grad, out_shape |-> ctx.B_shape]>>

\* Matmul_ATB_2p5D.backward
Matmul_ATB_backward(ctx, output_grad) ==
    <<[f |-> "ABT", A |-> ctx.saved_tensors[2], B |-> output_grad, out_shape |-> ctx.A_shape],
      [f |-> "AB", A |-> ctx.saved_tensors[1], B |-> output_grad, out_shape |-> ctx.B_shape]>>

SiblingCalls(f, ctx, output_grad) ==
    CASE f = "AB" -> Matmul_AB_backward(ctx, output_grad)
      [] f = "ABT" -> Matmul_ABT_backward(ctx, output_grad)
      [] f = "ATB" -> Matmul_ATB_backward(ctx, output_grad)

\* the tuple the three matmul backwards return
MatmulBackwardReturn(A_grad, B_grad) ==
    <<A_grad, B_grad, NoneT, NoneT, NoneT, NoneT, NoneT, NoneT, NoneT, NoneT, NoneT,
      NoneT, NoneT, NoneT, NoneT>>

\* a matmul forward returns out on rank state p: to the engine (phase 0), or into
\* the backward that called it, which makes its second call (phase 1) or returns
Return(p, out) ==
    CASE p.phase = 0 ->
           [p EXCEPT !.pc = "returned", !.out = out, !.ctx = SetCtx(p),
                     !.C = NoneT, !.A_list = <<>>, !.call = NoCall]
      [] p.phase = 1 ->
           LET c == SiblingCalls(p.top, p.ctx, p.output_grad)[2]
           IN  Call([p EXCEPT !.A_grad = out], c.f, c.A, c.B, c.out_shape,
                    CtxArgs(p.ctx), 2)
      [] p.phase = 2 ->
           [p EXCEPT !.pc = "done", !.ret = MatmulBackwardReturn(p.A_grad, out),
                     !.C = NoneT, !.A_list = <<>>, !.call = NoCall]

\* the engine invokes backward with the upstream gradient: the first sibling call
Backward(rk) ==
    LET p == proc[rk]
        g == inp[rk].output_grad
        c == SiblingCalls(p.top, p.ctx, g)[1]
    IN  /\ p.pc = "returned"
        /\ proc' = [proc EXCEPT ![rk] =
                      Call([p EXCEPT !.output_grad = g], c.f, c.A, c.B, c.out_shape,
                           CtxArgs(p.ctx), 1)]
        /\ UNCHANGED <<dim, fn, slice, inp>>

(* ---------------------- Matmul_AB_2p5D.forward ------------------------ *)

\* the assert of Matmul_AB_2p5D.forward: A.shape[-1] == B.shape[-2]
AB_ShapesOk(A, B) ==
    /\ Len(B.shape) >= 2
    /\ LastDim(A.shape) = B.shape[Len(B.shape) - 1]

\* indices of the gathered tiles multiplied in iteration i
\* mutant: the gathered A tile is taken at (i + row_rank) mod tesseract_dim
AB_src_a_shifted(i, arg) == (i + arg.row_rank) % arg.tesseract_dim

AB_src_a(i, arg) == (i + arg.tesseract_dim * arg.row_rank) % arg.tesseract_dim

\* mutant: the gathered B tile is taken at (i + col_rank) mod tesseract_dim
AB_src_b_shifted(i, arg) == (i + arg.col_rank) % arg.tesseract_dim

AB_src_b(i, arg) == (i + arg.tesseract_dim * arg.col_rank) % arg.tesseract_dim

\* iterations i .. tesseract_dim-1 of the accumulation loop
RECURSIVE AB_Loop(_, _, _, _, _)
AB_Loop(C, A_list, B_list, i, arg) ==
    IF i >= arg.tesseract_dim THEN C
    ELSE AB_Loop(Addmm(C, A_list[AB_src_a(i, arg) + 1], B_list[AB_src_b(i, arg) + 1]),
                 A_list, B_list, i + 1, arg)

\* assert, save, reshape, C = zeros, all_gather of A over the row group
AB_forward_gatherA(rk) ==
    LET p == proc[rk]
        A == Reshape2D(p.A)
        B == Reshape2D(p.B)
        q == [SaveForBackward(p, p.A, p.B) EXCEPT
                !.A_shape = p.A.shape, !.B_shape = p.B.shape, !.A = A, !.B = B,
                !.C = Zeros(<<A.shape[1], LastDim(B.shape)>>)]
    IN  /\ p.pc = "run" /\ p.f = "AB" /\ p.at = "start"
        /\ proc' = [proc EXCEPT ![rk] =
                      IF ~AB_ShapesOk(p.A, p.B) THEN [p EXCEPT !.pc = "failed"]
                      ELSE Issue(q, "gatherA", "all_gather", p.arg.row_parallel_mode, -1, A)]
        /\ UNCHANGED <<dim, fn, slice, inp>>

\* op_a.wait(), then the all_gather of B over the column group
AB_forward_gatherB(rk) ==
    LET p == proc[rk]
    IN  /\ p.pc = "run" /\ p.f = "AB" /\ p.at = "gatherA"
        /\ proc' = [proc EXCEPT ![rk] =
                      Issue([p EXCEPT !.A_list = p.call.list], "gatherB", "all_gather",
                            p.arg.col_parallel_mode, -1, p.B)]
        /\ UNCHANGED <<dim, fn, slice, inp>>

\* the accumulation loop, the reshape to out_shape and the return
AB_forward_loop(rk) ==
    LET p == proc[rk]
        C == AB_Loop(p.C, p.A_list, p.call.list, 0, p.arg)
    IN  /\ p.pc = "run" /\ p.f = "AB" /\ p.at = "gatherB"
        /\ proc' = [proc EXCEPT ![rk] = Return(p, Reshape(C, p.out_shape))]
        /\ UNCHANGED <<dim, fn, slice, inp>>

(* ---------------------- Matmul_ABT_2p5D.forward ----------------------- *)

\* the assert of Matmul_ABT_2p5D.forward: A.shape[-1] == B.shape[-1]
ABT_ShapesOk(A, B) == LastDim(A.shape) = LastDim(B.shape)

\* mutant: the broadcast source is addressed by column coordinate i in the rank's row
ABT_src_b_row(i, arg) ==
    i + arg.row_rank * arg.tesseract_dim
      + arg.dep_rank * (arg.tesseract_dim * arg.tesseract_dim)
      + arg.data_parallel_rank * arg.pipeline_parallel_size * arg.tensor_parallel_size
      + arg.pipeline_parallel_rank * arg.tensor_parallel_size

\* source of the broadcast of B in iteration i
ABT_src_b(i, arg) ==
    arg.col_rank + i * arg.tesseract_dim
      + arg.dep_rank * (arg.tesseract_dim * arg.tesseract_dim)
      + arg.data_parallel_rank * arg.pipeline_parallel_size * arg.tensor_parallel_size
      + arg.pipeline_parallel_rank * arg.tensor_parallel_size

\* mutant: the data-parallel stride without the pipeline_parallel_size factor
ABT_src_c_no_pipeline_stride(i, arg) ==
    i + arg.row_rank * arg.tesseract_dim
      + arg.dep_rank * (arg.tesseract_dim * arg.tesseract_dim)
      + arg.data_parallel_rank * arg.tensor_parallel_size
      + arg.pipeline_parallel_rank * arg.tensor_parallel_size

\* mutant: the reduce destination is addressed by row coordinate i in the rank's column
ABT_src_c_col(i, arg) ==
    arg.col_rank + i * arg.tesseract_dim
      + arg.dep_rank * (arg.tesseract_dim * arg.tesseract_dim)
      + arg.data_parallel_rank * arg.pipeline_parallel_size * arg.tensor_parallel_size
      + arg.pipeline_parallel_rank * arg.tensor_parallel_size

\* destination of the reduce of C_temp in iteration i
ABT_src_c(i, arg) ==
    i + arg.row_rank * arg.tesseract_dim
      + arg.dep_rank * (arg.tesseract_dim * arg.tesseract_dim)
      + arg.data_parallel_rank * arg.pipeline_parallel_size * arg.tensor_parallel_size
      + arg.pipeline_parallel_rank * arg.tensor_parallel_size

\* C_temp of an iteration
ABT_C_temp(A, B_temp) == Matmul(A, Transpose(B_temp))

\* mutant: C_temp is kept in the iteration of the rank's row coordinate
ABT_keeps_row(i, arg) == i = arg.row_rank

\* whether iteration i keeps C_temp as C
ABT_keeps(i, arg) == i = arg.col_rank

\* head of iteration p.i: B_temp = B.clone(), broadcast over the column group
ABT_iteration(p) ==
    Issue(p, "bcast", "broadcast", p.arg.col_parallel_mode, ABT_src_b(p.i, p.arg), p.B)

\* assert, save, reshape, C = empty, first broadcast
ABT_forward_begin(rk) ==
    LET p == proc[rk]
        A == Reshape2D(p.A)
        B == Reshape2D(p.B)
    IN  /\ p.pc = "run" /\ p.f = "ABT" /\ p.at = "start"
        /\ LET q == [SaveForBackward(p, p.A, p.B) EXCEPT
                        !.A_shape = p.A.shape, !.B_shape = p.B.shape, !.A = A, !.B = B,
                        !.C = Empty(<<A.shape[1], B.shape[1]>>), !.i = 0]
           IN  IF ~ABT_ShapesOk(p.A, p.B)
               THEN proc' = [proc EXCEPT ![rk] = [p EXCEPT !.pc = "failed"]]
               ELSE IF p.arg.tesseract_dim > 0
               THEN proc' = [proc EXCEPT ![rk] = ABT_iteration(q)]
               ELSE \E C \in Read(q.C) :
                       proc' = [proc EXCEPT ![rk] = Return(q, Reshape(C, q.out_shape))]
        /\ UNCHANGED <<dim, fn, slice, inp>>

\* C_temp = A @ B_temp^T, reduce over the row group
ABT_forward_reduce(rk) ==
    LET p == proc[rk]
    IN  /\ p.pc = "run" /\ p.f = "ABT" /\ p.at = "bcast"
        /\ proc' = [proc EXCEPT ![rk] =
                      Issue(p, "reduce", "reduce", p.arg.row_parallel_mode,
                            ABT_src_c(p.i, p.arg), ABT_C_temp(p.A, p.call.buf))]
        /\ UNCHANGED <<dim, fn, slice, inp>>

\* if i == col_rank: C = C_temp.clone(); then the next iteration or the return
ABT_forward_next(rk) ==
    LET p == proc[rk]
    IN  /\ p.pc = "run" /\ p.f = "ABT" /\ p.at = "reduce"
        /\ \E C_temp \in Read(p.call.buf) :
             LET q == [p EXCEPT !.C = IF ABT_keeps(p.i, p.arg) THEN C_temp ELSE p.C,
                                !.i = p.i + 1]
             IN  IF q.i < q.arg.tesseract_dim
                 THEN proc' = [proc EXCEPT ![rk] = ABT_iteration(q)]
                 ELSE \E C \in Read(q.C) :
                         proc' = [proc EXCEPT ![rk] = Return(q, Reshape(C, q.out_shape))]
        /\ UNCHANGED <<dim, fn, slice, inp>>

(* ---------------------- Matmul_ATB_2p5D.forward ----------------------- *)

\* mutant: Matmul_ATB_2p5D.forward without its assert
ATB_ShapesOk_unchecked(A, B) == TRUE

\* the assert of Matmul_ATB_2p5D.forward: A.shape[-2] == B.shape[-2]
ATB_ShapesOk(A, B) ==
    /\ Len(A.shape) >= 2 /\ Len(B.shape) >= 2
    /\ A.shape[Len(A.shape) - 1] = B.shape[Len(B.shape) - 1]

\* mutant: the broadcast source is addressed by row coordinate i in the rank's column
ATB_src_a_col(i, arg) ==
    arg.col_rank + i * arg.tesseract_dim
      + arg.dep_rank * (arg.tesseract_dim * arg.tesseract_dim)
      + arg.data_parallel_rank * arg.pipeline_parallel_size * arg.tensor_parallel_size
      + arg.pipeline_parallel_rank * arg.tensor_parallel_size

\* source of the broadcast of A in iteration i
ATB_src_a(i, arg) ==
    i + arg.row_rank * arg.tesseract_dim
      + arg.dep_rank * (arg.tesseract_dim * arg.tesseract_dim)
      + arg.data_parallel_rank * arg.pipeline_parallel_size * arg.tensor_parallel_size
      + arg.pipeline_parallel_rank * arg.tensor_parallel_size

\* destination of the reduce of C_temp in iteration i
ATB_src_c(i, arg) ==
    arg.col_rank + i * arg.tesseract_dim
      + arg.dep_rank * (arg.tesseract_dim * arg.tesseract_dim)
      + arg.data_parallel_rank * arg.pipeline_parallel_size * arg.tensor_parallel_size
      + arg.pipeline_parallel_rank * arg.tensor_parallel_size

\* C_temp of an iteration
ATB_C_temp(A_temp, B) == Matmul(Transpose(A_temp), B)

\* mutant: C_temp is kept in the iteration of the rank's column coordinate
ATB_keeps_col(i, arg) == i = arg.col_rank

\* mutant: the value of the last iteration is kept
ATB_keeps_last(i, arg) == i = arg.tesseract_dim - 1

\* whether iteration i keeps C_temp as C
ATB_keeps(i, arg) == i = arg.row_rank

\* head of iteration p.i: A_temp = A.clone(), broadcast over the row group
ATB_iteration(p) ==
    Issue(p, "bcast", "broadcast", p.arg.row_parallel_mode, ATB_src_a(p.i, p.arg), p.A)

\* assert, save, reshape, C = empty, first broadcast
ATB_forward_begin(rk) ==
    LET p == proc[rk]
        A == Reshape2D(p.A)
        B == Reshape2D(p.B)
    IN  /\ p.pc = "run" /\ p.f = "ATB" /\ p.at = "start"
        /\ LET q == [SaveForBackward(p, p.A, p.B) EXCEPT
                        !.A_shape = p.A.shape, !.B_shape = p.B.shape, !.A = A, !.B = B,
                        !.C = Empty(<<LastDim(A.shape), LastDim(B.shape)>>), !.i = 0]
           IN  IF ~ATB_ShapesOk(p.A, p.B)
               THEN proc' = [proc EXCEPT ![rk] = [p EXCEPT !.pc = "failed"]]
               ELSE IF p.arg.tesseract_dim > 0
               THEN proc' = [proc EXCEPT ![rk] = ATB_iteration(q)]
               ELSE \E C \in Read(q.C) :
                       proc' = [proc EXCEPT ![rk] = Return(q, Reshape(C, q.out_shape))]
        /\ UNCHANGED <<dim, fn, slice, inp>>

\* C_temp = A_temp^T @ B, reduce over the column group
ATB_forward_reduce(rk) ==
    LET p == proc[rk]
    IN  /\ p.pc = "run" /\ p.f = "ATB" /\ p.at = "bcast"
        /\ proc' = [proc EXCEPT ![rk] =
                      Issue(p, "reduce", "reduce", p.arg.col_parallel_mode,
                            ATB_src_c(p.i, p.arg), ATB_C_temp(p.call.buf, p.B))]
        /\ UNCHANGED <<dim, fn, slice, inp>>

\* if i == row_rank: C = C_temp.clone(); then the next iteration or the return
ATB_forward_next(rk) ==
    LET p == proc[rk]
    IN  /\ p.pc = "run" /\ p.f = "ATB" /\ p.at = "reduce"
        /\ \E C_temp \in Read(p.call.buf) :
             LET q == [p EXCEPT !.C = IF ATB_keeps(p.i, p.arg) THEN C_temp ELSE p.C,
                                !.i = p.i + 1]
             IN  IF q.i < q.arg.tesseract_dim
                 THEN proc' = [proc EXCEPT ![rk] = ATB_iteration(q)]
                 ELSE \E C \in Read(q.C) :
                         proc' = [proc EXCEPT ![rk] = Return(q, Reshape(C, q.out_shape))]
        /\ UNCHANGED <<dim, fn, slice, inp>>

(* ------------------------------ the run ------------------------------- *)

Functions == {"AB", "ABT", "ATB"}

\* tile shapes the layers hand to each Function
ShapeA(f) == <<Batch, TileM, TileK>>

ShapeB(f) ==
    CASE f = "AB" -> <<TileK, TileN>>
      [] f = "ABT" -> <<TileN, TileK>>
      [] f = "ATB" -> <<Batch, TileM, TileN>>

OutShape(f) == IF f = "ATB" THEN <<TileK, TileN>> ELSE <<Batch, TileM, TileN>>

\* a tile with entries v, v+1, ...
Ramp(shape, v) == [shape |-> shape, data |-> [k \in 1..Numel(shape) |-> v + k - 1]]

\* where a tiled matrix is non-zero: at one grid coordinate, or (Everywhere) at all
Everywhere == <<-1, -1>>

Supports(d) == Ranks(d) \cup {Everywhere}

TileOf(sup, v, rk, shape, d) ==
    IF sup = Everywhere THEN Ramp(shape, v + rk[1] * d + rk[2])
    ELSE IF sup = rk THEN Ramp(shape, v)
    ELSE Zeros(shape)

Slices ==
    [dep_rank : 0..(Depth - 1),
     data_parallel_rank : 0..(DataSize - 1),
     pipeline_parallel_rank : 0..(PipelineSize - 1)]

\* a rank before the engine calls forward
Blank ==
    [pc |-> "run", at |-> "start", top |-> "", f |-> "", phase |-> 0, arg |-> NoneT,
     A |-> NoneT, B |-> NoneT, out_shape |-> <<>>, A_shape |-> <<>>, B_shape |-> <<>>,
     C |-> NoneT, i |-> 0, A_list |-> <<>>, call |-> NoCall, ctx |-> NoneT,
     out |-> NoneT, output_grad |-> NoneT, A_grad |-> NoneT, ret |-> <<>>]

\* where A and B may be non-zero: anywhere, or (dense) in every tile
InputSupports(dense, d) == IF dense THEN {Everywhere} ELSE Supports(d)

\* the engine has called forward of Function fn on every rank of a slice
InitFrom(dense) ==
    /\ dim \in 1..MaxDim
    /\ fn \in Functions
    /\ slice \in Slices
    /\ \E sa \in InputSupports(dense, dim), sb \in InputSupports(dense, dim),
          va \in 1..MaxVal, vb \in 1..MaxVal, vg \in 1..MaxVal :
         inp = [rk \in Ranks(dim) |->
                  [A |-> TileOf(sa, va, rk, ShapeA(fn), dim),
                   B |-> TileOf(sb, vb, rk, ShapeB(fn), dim),
                   output_grad |-> TileOf(Everywhere, vg, rk, OutShape(fn), dim)]]
    /\ proc = [rk \in Ranks(dim) |->
                 Call([Blank EXCEPT !.top = fn], fn, inp[rk].A, inp[rk].B,
                      OutShape(fn), Metadata(rk), 0)]

Init == InitFrom(FALSE)

\* the runs with every tile non-zero: which steps a rank takes does not depend on
\* the contents of its tiles
FairInit == InitFrom(TRUE)

Next ==
    \/ \E rk \in Ranks(dim) : AB_forward_gatherA(rk)
    \/ \E rk \in Ranks(dim) : AB_forward_gatherB(rk)
    \/ \E rk \in Ranks(dim) : AB_forward_loop(rk)
    \/ \E rk \in Ranks(dim) : ABT_forward_begin(rk)
    \/ \E rk \in Ranks(dim) : ABT_forward_reduce(rk)
    \/ \E rk \in Ranks(dim) : ABT_forward_next(rk)
    \/ \E rk \in Ranks(dim) : ATB_forward_begin(rk)
    \/ \E rk \in Ranks(dim) : ATB_forward_reduce(rk)
    \/ \E rk \in Ranks(dim) : ATB_forward_next(rk)
    \/ \E rk \in Ranks(dim) : Backward(rk)
    \/ \E mode \in {"ROW", "COL"}, rk \in Ranks(dim) : AllGather(mode, rk)
    \/ \E mode \in {"ROW", "COL"}, rk \in Ranks(dim) : Broadcast(mode, rk)
    \/ \E mode \in {"ROW", "COL"}, rk \in Ranks(dim) : Reduce(mode, rk)

Spec == Init /\ [][Next]_vars

\* every rank that can take a step eventually takes one, and every collective all
\* of whose members have arrived eventually completes
FairSpec == FairInit /\ [][Next]_vars /\ WF_vars(Next)

(* --------------------------- Add_Bias_2p5D ---------------------------- *)

\* the shape of a buffer, whether or not its contents are determined
ShapeOf(X) == (CHOOSE t \in Read(X) : TRUE).shape

\* torch.zeros_like(X)
ZerosLike(X) == Zeros(ShapeOf(X))

\* mutant: the root is the rank of the last row of the caller's column
Add_Bias_root_last_row(arg) ==
    arg.col_rank + (arg.tesseract_dim - 1) * arg.tesseract_dim
      + arg.dep_rank * (arg.tesseract_dim * arg.tesseract_dim)
      + arg.data_parallel_rank * arg.pipeline_parallel_size * arg.tensor_parallel_size
      + arg.pipeline_parallel_rank * arg.tensor_parallel_size

\* source of the bias broadcast and destination of the gradient reduce: the rank
\* of row 0 in the caller's column
Add_Bias_root(arg) ==
    arg.col_rank + arg.dep_rank * (arg.tesseract_dim * arg.tesseract_dim)
      + arg.data_parallel_rank * arg.pipeline_parallel_size * arg.tensor_parallel_size
      + arg.pipeline_parallel_rank * arg.tensor_parallel_size

\* bias_temp before the broadcast
Add_Bias_temp(bias, arg) ==
    IF arg.row_rank = 0 THEN bias ELSE Zeros(<<arg.output_size_per_partition>>)

\* forward up to the broadcast of bias_temp over the column group
Add_Bias_forward_broadcast(rk) ==
    LET p == proc[rk]
    IN  /\ p.pc = "run" /\ p.f = "Bias" /\ p.at = "start"
        /\ proc' = [proc EXCEPT ![rk] =
                      Issue(p, "bcast", "broadcast", p.arg.col_parallel_mode,
                            Add_Bias_root(p.arg), Add_Bias_temp(p.bias, p.arg))]
        /\ UNCHANGED <<dim, fn, slice, inp>>

\* what forward returns
Add_Bias_output(input, bias_temp, skip_bias_add) ==
    IF skip_bias_add THEN bias_temp ELSE AddBias(input, bias_temp)

\* the ctx.* assignments and the return of forward
Add_Bias_forward_return(rk) ==
    LET p == proc[rk]
        bias_temp == p.call.buf
    IN  /\ p.pc = "run" /\ p.f = "Bias" /\ p.at = "bcast"
        /\ proc' = [proc EXCEPT ![rk] =
                      [p EXCEPT !.pc = "returned", !.call = NoCall,
                                !.bias_temp = bias_temp,
                                !.ctx = [row_rank |-> p.arg.row_rank,
                                         col_rank |-> p.arg.col_rank,
                                         dep_rank |-> p.arg.dep_rank,
                                         tesseract_dim |-> p.arg.tesseract_dim,
                                         col_parallel_mode |-> p.arg.col_parallel_mode,
                                         bias |-> p.arg.skip_bias_add,
                                         data_parallel_rank |-> p.arg.data_parallel_rank,
                                         pipeline_parallel_rank |-> p.arg.pipeline_parallel_rank,
                                         pipeline_parallel_size |-> p.arg.pipeline_parallel_size,
                                         tensor_parallel_size |-> p.arg.tensor_parallel_size],
                                !.out = Add_Bias_output(p.input, bias_temp,
                                                        p.arg.skip_bias_add)]]
        /\ UNCHANGED <<dim, fn, slice, inp>>

\* mutant: the two branches of backward exchanged
Add_Bias_reduced_swapped(ctx, output_grad) ==
    IF ctx.bias THEN SumLeading(output_grad) ELSE output_grad

\* the tensor backward hands to dist.reduce: output_grad when ctx.bias (the add was
\* skipped), else its sum over the leading dimensions
Add_Bias_reduced(ctx, output_grad) ==
    IF ctx.bias THEN output_grad ELSE SumLeading(output_grad)

\* backward up to the reduce over the column group
Add_Bias_backward_reduce(rk) ==
    LET p == proc[rk]
        g == inp[rk].output_grad
    IN  /\ p.pc = "returned" /\ p.f = "Bias"
        /\ proc' = [proc EXCEPT ![rk] =
                      Issue([p EXCEPT !.output_grad = g, !.phase = 1], "reduce", "reduce",
                            p.ctx.col_parallel_mode, Add_Bias_root(p.ctx),
                            Add_Bias_reduced(p.ctx, g))]
        /\ UNCHANGED <<dim, fn, slice, inp>>

\* mutant: every rank returns its reduce buffer as the bias gradient
Add_Bias_grad_unmasked(ctx, reduced) == reduced

\* the bias gradient backward returns, given its buffer after the reduce
Add_Bias_grad(ctx, reduced) == IF ctx.row_rank = 0 THEN reduced ELSE ZerosLike(reduced)

\* the tuple backward returns: in the skip branch output_grad is the reduce buffer
Add_Bias_backward_tuple(ctx, output_grad, reduced) ==
    IF ctx.bias
    THEN <<NoneT, Add_Bias_grad(ctx, reduced), NoneT, NoneT, NoneT, NoneT, NoneT, NoneT,
           NoneT, NoneT, NoneT, NoneT, NoneT, NoneT, NoneT, NoneT>>
    ELSE <<output_grad, Add_Bias_grad(ctx, reduced), NoneT, NoneT, NoneT, NoneT, NoneT,
           NoneT, NoneT, NoneT, NoneT, NoneT, NoneT, NoneT, NoneT, NoneT, NoneT>>

\* the return of backward
Add_Bias_backward_return(rk) ==
    LET p == proc[rk]
    IN  /\ p.pc = "run" /\ p.f = "Bias" /\ p.at = "reduce"
        /\ \E ret \in {Add_Bias_backward_tuple(p.ctx, p.output_grad,
                          IF p.ctx.row_rank = 0 THEN v ELSE p.call.buf) :
                       v \in Read(p.call.buf)} :
             proc' = [proc EXCEPT ![rk] =
                        [p EXCEPT !.pc = "done", !.call = NoCall, !.ret = ret]]
        /\ UNCHANGED <<dim, fn, slice, inp>>

\* a rank before the engine calls Add_Bias_2p5D.forward
BiasBlank ==
    [pc |-> "run", at |-> "start", top |-> "Bias", f |-> "Bias", phase |-> 0,
     arg |-> NoneT, input |-> NoneT, bias |-> NoneT, bias_temp |-> NoneT,
     call |-> NoCall, ctx |-> NoneT, out |-> NoneT, output_grad |-> NoneT, ret |-> <<>>]

\* the metadata arguments the layer passes to Add_Bias_2p5D.forward on rank rk
BiasMetadata(rk, skip_bias_add) ==
    [output_size_per_partition |-> TileN,
     tesseract_dim |-> dim,
     row_rank |-> rk[1],
     col_rank |-> rk[2],
     dep_rank |-> slice.dep_rank,
     col_parallel_mode |-> "COL",
     skip_bias_add |-> skip_bias_add,
     data_parallel_rank |-> slice.data_parallel_rank,
     pipeline_parallel_rank |-> slice.pipeline_parallel_rank,
     pipeline_parallel_size |-> PipelineSize,
     tensor_parallel_size |-> TensorParallelSize(dim)]

\* the engine has called Add_Bias_2p5D.forward on every rank of a slice; every rank
\* passes its own bias, and the upstream gradient has the shape of the output
BiasInit ==
    /\ dim \in 1..MaxDim
    /\ fn = "Bias"
    /\ slice \in Slices
    /\ \E skip \in BOOLEAN, sb \in Supports(dim), sg \in Supports(dim),
          va \in 1..MaxVal, vb \in 1..MaxVal, vg \in 1..MaxVal :
         /\ inp = [rk \in Ranks(dim) |->
                     [input |-> TileOf(Everywhere, va, rk, <<Batch, TileM, TileN>>, dim),
                      bias |-> TileOf(sb, vb, rk, <<TileN>>, dim),
                      skip_bias_add |-> skip,
                      output_grad |->
                         TileOf(sg, vg, rk,
                                IF skip THEN <<TileN>> ELSE <<Batch, TileM, TileN>>, dim)]]
         /\ proc = [rk \in Ranks(dim) |->
                      [BiasBlank EXCEPT !.arg = BiasMetadata(rk, skip),
                                        !.input = inp[rk].input,
                                        !.bias = inp[rk].bias]]

BiasNext ==
    \/ \E rk \in Ranks(dim) : Add_Bias_forward_broadcast(rk)
    \/ \E rk \in Ranks(dim) : Add_Bias_forward_return(rk)
    \/ \E rk \in Ranks(dim) : Add_Bias_backward_reduce(rk)
    \/ \E rk \in Ranks(dim) : Add_Bias_backward_return(rk)
    \/ \E mode \in {"ROW", "COL"}, rk \in Ranks(dim) : Broadcast(mode, rk)
    \/ \E mode \in {"ROW", "COL"}, rk \in Ranks(dim) : Reduce(mode, rk)

BiasSpec == BiasInit /\ [][BiasNext]_vars

(* --------------------- dense reference products ----------------------- *)

\* the tiled matrix X (rank -> tensor) with every tile viewed as 2D
Tiles2D(X) == [rk \in DOMAIN X |-> Reshape2D(X[rk])]

\* the sum of a non-empty sequence of tensors of one shape
RECURSIVE SumTiles(_)
SumTiles(s) == IF Len(s) = 1 THEN s[1] ELSE TAdd(Head(s), SumTiles(Tail(s)))

\* tile (r, c) of the dense product X * Y
DenseAB(X, Y, rk) ==
    SumTiles([k \in 1..dim |-> Matmul(X[<<rk[1], k - 1>>], Y[<<k - 1, rk[2]>>])])

\* tile (r, c) of the dense product X * Y^T
DenseABT(X, Y, rk) ==
    SumTiles([k \in 1..dim |->
                Matmul(X[<<rk[1], k - 1>>], Transpose(Y[<<rk[2], k - 1>>]))])

\* tile (r, c) of the dense product X^T * Y
DenseATB(X, Y, rk) ==
    SumTiles([k \in 1..dim |->
                Matmul(Transpose(X[<<k - 1, rk[1]>>]), Y[<<k - 1, rk[2]>>])])

InA == Tiles2D([rk \in Ranks(dim) |-> inp[rk].A])

InB == Tiles2D([rk \in Ranks(dim) |-> inp[rk].B])

InG == Tiles2D([rk \in Ranks(dim) |-> inp[rk].output_grad])

ForwardReturned(rk) == proc[rk].out # NoneT

AllForwardReturned == \A rk \in Ranks(dim) : ForwardReturned(rk)

BackwardReturned(rk) == proc[rk].pc = "done"

AllBackwardReturned == \A rk \in Ranks(dim) : BackwardReturned(rk)

NonZero(X) == \E k \in 1..Len(X.data) : X.data[k] # 0

(* ------------------------------ claims -------------------------------- *)

\* C1: after Matmul_AB_2p5D.forward the tile C of rank (r, c) is the sum over k
\* of A[r][k] * B[k][c], reshaped to out_shape: the tiles assemble to A * B.
C1_AB_IsDenseProduct ==
    fn = "AB" =>
       \A rk \in Ranks(dim) :
          ForwardReturned(rk) =>
             proc[rk].out = Reshape(DenseAB(InA, InB, rk), OutShape("AB"))

C1_Witness ==
    /\ fn = "AB" /\ dim = 2 /\ AllForwardReturned
    /\ \E rk \in Ranks(dim) : NonZero(proc[rk].out)

\* C2: after Matmul_ABT_2p5D.forward the tile C of rank (r, c) is the sum over k
\* of A[r][k] * transpose(B[c][k]): the tiles assemble to A * B^T.
C2_ABT_IsDenseProduct ==
    fn = "ABT" =>
       \A rk \in Ranks(dim) :
          ForwardReturned(rk) =>
             proc[rk].out = Reshape(DenseABT(InA, InB, rk), OutShape("ABT"))

C2_Witness ==
    /\ fn = "ABT" /\ dim = 2 /\ AllForwardReturned
    /\ \E rk \in Ranks(dim) : NonZero(proc[rk].out)

\* C3: after Matmul_ATB_2p5D.forward the tile C of rank (r, c) is the sum over k
\* of transpose(A[k][r]) * B[k][c]: the tiles assemble to A^T * B.
C3_ATB_IsDenseProduct ==
    fn = "ATB" =>
       \A rk \in Ranks(dim) :
          ForwardReturned(rk) =>
             proc[rk].out = Reshape(DenseATB(InA, InB, rk), OutShape("ATB"))

C3_Witness ==
    /\ fn = "ATB" /\ dim = 2 /\ AllForwardReturned
    /\ \E rk \in Ranks(dim) : NonZero(proc[rk].out)

\* C4: Matmul_AB_2p5D.backward calls Matmul_ABT(grad_C, B) and then
\* Matmul_ATB(A, grad_C); the gradients it returns are, tile for tile, grad_C * B^T
\* in A's original shape and A^T * grad_C in B's original shape.
C4_AB_BackwardIsGradient ==
    fn = "AB" =>
       \A rk \in Ranks(dim) :
          /\ proc[rk].phase = 1 => proc[rk].f = "ABT"
          /\ proc[rk].phase = 2 => proc[rk].f = "ATB"
          /\ BackwardReturned(rk) =>
                /\ proc[rk].ret[1] = Reshape(DenseABT(InG, InB, rk), inp[rk].A.shape)
                /\ proc[rk].ret[2] = Reshape(DenseATB(InA, InG, rk), inp[rk].B.shape)

C4_Witness ==
    /\ fn = "AB" /\ dim = 2 /\ AllBackwardReturned
    /\ \E rk \in Ranks(dim) : NonZero(proc[rk].ret[1]) /\ NonZero(proc[rk].ret[2])

\* C5: Matmul_ABT_2p5D.backward returns grad_A = Matmul_AB(grad_C, B) and
\* grad_B = Matmul_ATB(grad_C, A); Matmul_ATB_2p5D.backward returns
\* grad_A = Matmul_ABT(B, grad_C) and grad_B = Matmul_AB(A, grad_C); each in the
\* original shape of A resp. B, and equal to the gradients of A * B^T resp. A^T * B.
C5_SiblingBackwardsAreGradients ==
    \A rk \in Ranks(dim) :
       /\ fn = "ABT" =>
             /\ proc[rk].phase = 1 => proc[rk].f = "AB"
             /\ proc[rk].phase = 2 => proc[rk].f = "ATB"
             /\ BackwardReturned(rk) =>
                   /\ proc[rk].ret[1] = Reshape(DenseAB(InG, InB, rk), inp[rk].A.shape)
                   /\ proc[rk].ret[2] = Reshape(DenseATB(InG, InA, rk), inp[rk].B.shape)
       /\ fn = "ATB" =>
             /\ proc[rk].phase = 1 => proc[rk].f = "ABT"
             /\ proc[rk].phase = 2 => proc[rk].f = "AB"
             /\ BackwardReturned(rk) =>
                   /\ proc[rk].ret[1] = Reshape(DenseABT(InB, InG, rk), inp[rk].A.shape)
                   /\ proc[rk].ret[2] = Reshape(DenseAB(InA, InG, rk), inp[rk].B.shape)

C5_Witness ==
    /\ fn = "ATB" /\ dim = 2 /\ AllBackwardReturned
    /\ \E rk \in Ranks(dim) : NonZero(proc[rk].ret[1]) /\ NonZero(proc[rk].ret[2])

\* C6: with rendezvous collectives, when every rank of the slice runs the same
\* Function (forward, then backward) every rank eventually returns from both, in
\* every fair interleaving; so no rank waits for a collective that is never matched.
C6_EveryRankReturns == <>AllForwardReturned /\ <>AllBackwardReturned

C6_Witness ==
    /\ dim = 2
    /\ \E rk \in Ranks(dim) : proc[rk].pc = "wait" /\ proc[rk].phase = 2
    /\ \E rk \in Ranks(dim) : BackwardReturned(rk)

\* C7 (as stated): the tuple backward returns has exactly one entry per forward
\* argument after ctx: a gradient in the place of each tensor argument, None in the
\* place of every other argument.
C7_ArityContract ==
    \A rk \in Ranks(dim) :
       BackwardReturned(rk) =>
          LET params == ForwardParams(proc[rk].top)
              ret == proc[rk].ret
          IN  /\ Len(ret) = Len(params)
              /\ \A k \in 1..Len(params) : (ret[k] = NoneT) <=> (params[k] \notin TensorParams)

\* the bias tile of the row-0 rank of rk's column
Row0Bias(rk) == inp[<<0, rk[2]>>].bias

\* C8: after Add_Bias_2p5D.forward every rank of a column group holds the bias of
\* the group's row-0 rank, whatever bias it passed itself; forward returns that tile
\* when skip_bias_add, else input + that tile.
C8_BiasIsRow0Bias ==
    fn = "Bias" =>
       \A rk \in Ranks(dim) :
          ForwardReturned(rk) =>
             /\ proc[rk].bias_temp = Row0Bias(rk)
             /\ proc[rk].out = IF inp[rk].skip_bias_add THEN Row0Bias(rk)
                               ELSE AddBias(inp[rk].input, Row0Bias(rk))

C8_Witness ==
    /\ fn = "Bias" /\ dim = 2 /\ AllForwardReturned
    /\ \E rk \in Ranks(dim) :
          /\ rk[1] # 0 /\ ~inp[rk].skip_bias_add
          /\ inp[rk].bias # Row0Bias(rk) /\ NonZero(Row0Bias(rk))

\* what a rank contributes to the reduce of Add_Bias_2p5D.backward
Contribution(rk) ==
    IF inp[rk].skip_bias_add THEN inp[rk].output_grad
    ELSE SumLeading(inp[rk].output_grad)

\* the sum of the contributions of the column group of rk
ColumnSum(rk) == SumTiles([k \in 1..dim |-> Contribution(<<k - 1, rk[2]>>)])

\* C9: after Add_Bias_2p5D.backward the bias gradient of the row-0 rank is the sum
\* of the contributions of its column group, and the bias gradient of every other
\* rank is zero, of the same shape; in both branches.
C9_BiasGradOnlyOnRow0 ==
    fn = "Bias" =>
       \A rk \in Ranks(dim) :
          BackwardReturned(rk) =>
             proc[rk].ret[2] = IF rk[1] = 0 THEN ColumnSum(rk)
                               ELSE Zeros(Contribution(rk).shape)

C9_Witness ==
    /\ fn = "Bias" /\ dim = 2 /\ AllBackwardReturned
    /\ \E rk \in Ranks(dim) :
          /\ rk[1] # 0 /\ NonZero(Contribution(rk))
          /\ proc[<<0, rk[2]>>].ret[2] = ColumnSum(rk)

InReduce(rk) == proc[rk].pc = "wait" /\ proc[rk].call.kind = "reduce"

\* C10 (as stated): the tensor Add_Bias_2p5D.backward reduces is the column-sum of
\* the output gradient when skip_bias_add, and the output gradient itself otherwise.
C10_AsStated ==
    fn = "Bias" =>
       \A rk \in Ranks(dim) :
          InReduce(rk) =>
             proc[rk].call.buf = IF inp[rk].skip_bias_add
                                 THEN SumLeading(inp[rk].output_grad)
                                 ELSE inp[rk].output_grad

\* C10 (amended): the tensor Add_Bias_2p5D.backward reduces is the output gradient
\* itself when skip_bias_add, and the sum of the output gradient over its leading
\* dimensions when the add was performed.
C10_ReducedQuantity ==
    fn = "Bias" =>
       \A rk \in Ranks(dim) :
          InReduce(rk) =>
             proc[rk].call.buf = IF inp[rk].skip_bias_add
                                 THEN inp[rk].output_grad
                                 ELSE SumLeading(inp[rk].output_grad)

C10_Witness ==
    /\ fn = "Bias" /\ dim = 2
    /\ \E rk \in Ranks(dim) :
          /\ InReduce(rk) /\ ~inp[rk].skip_bias_add
          /\ NonZero(proc[rk].call.buf)
          /\ proc[rk].call.buf # inp[rk].output_grad

(* --------------------------- grid addressing -------------------------- *)

\* largest pipeline_parallel_size and data-parallel size addressed
MaxPipeline == 2

MaxData == 2

\* the grid shapes addressed: tensor_parallel_size is tesseract_dim^2 * depth
GridShapes ==
    [tesseract_dim : 1..MaxDim, depth : 1..Depth,
     pipeline_parallel_size : 1..MaxPipeline, data_parallel_size : 1..MaxData]

\* the in-range grid coordinates of a grid of shape g
Coordinates(g) ==
    [row_rank : 0..(g.tesseract_dim - 1), col_rank : 0..(g.tesseract_dim - 1),
     dep_rank : 0..(g.depth - 1),
     data_parallel_rank : 0..(g.data_parallel_size - 1),
     pipeline_parallel_rank : 0..(g.pipeline_parallel_size - 1)]

\* the number of ranks of a grid of shape g
GridSize(g) ==
    g.tesseract_dim * g.tesseract_dim * g.depth
      * g.pipeline_parallel_size * g.data_parallel_size

\* the metadata arguments of the rank at coordinate c of a grid of shape g
AddressArgs(g, c) ==
    [tesseract_dim |-> g.tesseract_dim,
     row_rank |-> c.row_rank,
     col_rank |-> c.col_rank,
     dep_rank |-> c.dep_rank,
     data_parallel_rank |-> c.data_parallel_rank,
     pipeline_parallel_rank |-> c.pipeline_parallel_rank,
     pipeline_parallel_size |-> g.pipeline_parallel_size,
     tensor_parallel_size |-> g.tesseract_dim * g.tesseract_dim * g.depth]

\* the address of coordinate c as the inline computations resolve it: as the source
\* of a column broadcast (iteration i = c.row_rank, issued in column c.col_rank)
\* and as the destination of a row reduce (iteration i = c.col_rank, row c.row_rank)
AddressAsSource(g, c) == ABT_src_b(c.row_rank, AddressArgs(g, c))

AddressAsDestination(g, c) == ABT_src_c(c.col_rank, AddressArgs(g, c))

AddressInit ==
    /\ inp \in GridShapes
    /\ dim = inp.tesseract_dim
    /\ fn = "Address"
    /\ slice = NoneT
    /\ proc = [coord |-> NoneT, src |-> -1, dst |-> -1]

\* a rank resolves the address of coordinate c
Address_resolve(c) ==
    /\ proc' = [coord |-> c, src |-> AddressAsSource(inp, c),
                dst |-> AddressAsDestination(inp, c)]
    /\ UNCHANGED <<dim, fn, slice, inp>>

AddressNext == \E c \in Coordinates(inp) : Address_resolve(c)

AddressSpec == AddressInit /\ [][AddressNext]_vars

\* C11: for a fixed grid shape the address col_rank + row_rank*tesseract_dim
\* + dep_rank*tesseract_dim^2 + data_parallel_rank*pipeline_parallel_size*
\* tensor_parallel_size + pipeline_parallel_rank*tensor_parallel_size, as the
\* broadcast-source and reduce-destination computations resolve it, is a bijection
\* from the in-range coordinates to the ranks 0 .. size-1 of the grid: no other
\* coordinate resolves to the rank of a resolved coordinate, and every rank is hit.
C11_AddressIsBijection ==
    /\ proc.coord # NoneT =>
          /\ proc.src = proc.dst
          /\ proc.dst \in 0..(GridSize(inp) - 1)
          /\ \A c \in Coordinates(inp) :
                (AddressAsDestination(inp, c) = proc.dst
                   \/ AddressAsSource(inp, c) = proc.src) => c = proc.coord
    /\ {AddressAsDestination(inp, c) : c \in Coordinates(inp)} = 0..(GridSize(inp) - 1)

C11_Witness ==
    /\ proc.coord # NoneT
    /\ inp.tesseract_dim = MaxDim /\ inp.pipeline_parallel_size > 1
    /\ inp.data_parallel_size > 1 /\ inp.depth > 1
    /\ proc.coord.data_parallel_rank > 0 /\ proc.coord.pipeline_parallel_rank > 0
    /\ proc.coord.dep_rank > 0 /\ proc.coord.row_rank > 0
    /\ proc.dst = GridSize(inp) - 1

(* ------------------------- shape contracts ---------------------------- *)

\* the shape of a B tile that breaks the shape contract of Function f
BadShapeB(f) ==
    CASE f = "AB" -> <<TileK + 1, TileN>>
      [] f = "ABT" -> <<TileN, TileK + 1>>
      [] f = "ATB" -> <<Batch, TileM + 1, TileN>>

\* the engine has called forward on every rank; the ranks of `bad` were handed a B
\* tile of a shape that does not fit their A tile
ShapeInit ==
    /\ dim \in 1..MaxDim
    /\ fn \in Functions
    /\ slice \in Slices
    /\ \E bad \in SUBSET Ranks(dim) :
         inp = [rk \in Ranks(dim) |->
                  [A |-> TileOf(Everywhere, 1, rk, ShapeA(fn), dim),
                   B |-> TileOf(Everywhere, 1, rk,
                                IF rk \in bad THEN BadShapeB(fn) ELSE ShapeB(fn), dim),
                   output_grad |-> TileOf(Everywhere, 1, rk, OutShape(fn), dim)]]
    /\ proc = [rk \in Ranks(dim) |->
                 Call([Blank EXCEPT !.top = fn], fn, inp[rk].A, inp[rk].B,
                      OutShape(fn), Metadata(rk), 0)]

ShapeSpec == ShapeInit /\ [][Next]_vars

\* the tiles handed to rank rk violate the shape contract of the Function it runs
Mismatch(rk) ==
    LET a == inp[rk].A.shape
        b == inp[rk].B.shape
    IN  CASE fn = "AB" -> a[Len(a)] # b[Len(b) - 1]
          [] fn = "ABT" -> a[Len(a)] # b[Len(b)]
          [] fn = "ATB" -> a[Len(a) - 1] # b[Len(b) - 1]

\* rank rk as the engine's call of forward left it
Entered(rk) ==
    Call([Blank EXCEPT !.top = fn], fn, inp[rk].A, inp[rk].B, OutShape(fn),
         Metadata(rk), 0)

\* C12: a rank that calls forward of Matmul_AB_2p5D, Matmul_ABT_2p5D or
\* Matmul_ATB_2p5D with tiles that violate the Function's shape contract fails in
\* that call before it has issued any collective and before it has saved anything
\* into the context: it is either still at the entry of forward or failed there,
\* with everything else as at the entry; and no other rank fails.
C12_ShapeErrorBeforeCommunication ==
    \A rk \in Ranks(dim) :
       /\ Mismatch(rk) =>
             /\ proc[rk] \in {Entered(rk), [Entered(rk) EXCEPT !.pc = "failed"]}
             /\ proc[rk].call = NoCall /\ proc[rk].ctx = NoneT
       /\ proc[rk].pc = "failed" => Mismatch(rk)

C12_Witness ==
    /\ dim = 2
    /\ \E rk \in Ranks(dim) : Mismatch(rk) /\ proc[rk].pc = "failed"
    /\ \E rk \in Ranks(dim) : ~Mismatch(rk) /\ proc[rk].pc = "wait"

(* ------------------- AllGatherLast and SplitFirst --------------------- *)

\* leading-dimension lengths handed to SplitFirst: 1..MaxLead
MaxLead == 4

\* torch.chunk(n) of an axis of length len: chunks of ceil(len / n), the last one
\* shorter, and fewer than n chunks when len does not fill them
ChunkSize(len, n) == (len + n - 1) \div n

ChunkCount(len, n) == (len + ChunkSize(len, n) - 1) \div ChunkSize(len, n)

ChunkLen(len, n, k) ==
    IF k * ChunkSize(len, n) <= len THEN ChunkSize(len, n)
    ELSE len - (k - 1) * ChunkSize(len, n)

\* the shapes of X.chunk(n, dim=0) for X of this shape
ChunkShapes(shape, n) ==
    [k \in 1..ChunkCount(shape[1], n) |->
        <<ChunkLen(shape[1], n, k)>> \o Tail(shape)]

\* X.chunk(n, dim=0)
Chunk(X, n) ==
    LET inner == Numel(Tail(X.shape))
        size == ChunkSize(X.shape[1], n)
    IN  [k \in 1..ChunkCount(X.shape[1], n) |->
           [shape |-> ChunkShapes(X.shape, n)[k],
            data |-> SubSeq(X.data, (k - 1) * size * inner + 1,
                            ((k - 1) * size + ChunkLen(X.shape[1], n, k)) * inner)]]

\* X.chunk(n, dim=-1), each chunk made contiguous
ChunkLast(X, n) ==
    LET last == LastDim(X.shape)
        rows == Numel(X.shape) \div last
        size == ChunkSize(last, n)
        Width(k) == ChunkLen(last, n, k)
    IN  [k \in 1..ChunkCount(last, n) |->
           [shape |-> [X.shape EXCEPT ![Len(X.shape)] = Width(k)],
            data |-> [j \in 1..(rows * Width(k)) |->
                        X.data[((j - 1) \div Width(k)) * last
                                 + (k - 1) * size + ((j - 1) % Width(k)) + 1]]]]

\* X.permute(2, 0, 1).contiguous() of a 3D tensor [a, b, h]: [h, a, b]
Permute201(X) ==
    LET a == X.shape[1]
        b == X.shape[2]
        h == X.shape[3]
    IN  [shape |-> <<h, a, b>>,
         data |-> [k \in 1..(a * b * h) |->
                     X.data[(((k - 1) % (a * b)) \div b) * (b * h)
                              + ((k - 1) % b) * h + ((k - 1) \div (a * b)) + 1]]]

\* Y.permute(1, 2, 0).contiguous() of a 3D tensor [h, a, b]: [a, b, h]
Permute120(Y) ==
    LET h == Y.shape[1]
        a == Y.shape[2]
        b == Y.shape[3]
    IN  [shape |-> <<a, b, h>>,
         data |-> [k \in 1..(a * b * h) |->
                     Y.data[((k - 1) % h) * (a * b)
                              + ((k - 1) \div (b * h)) * b
                              + (((k - 1) \div h) % b) + 1]]]

RECURSIVE Concat(_)
Concat(list) == IF list = <<>> THEN <<>> ELSE Head(list).data \o Concat(Tail(list))

\* a buffer of this shape after all_gather wrote list[k] into its k-th chunk
\* along dim 0: the chunks tile the buffer in order
Gathered(shape, list) == [shape |-> shape, data |-> Concat(list)]

\* what dist.all_gather does with a list of receive chunks of these shapes and a
\* tensor to send, in a group of n ranks: "error" when the list has not one chunk
\* per rank; when a chunk has not the shape of the tensor sent, an error or an
\* uneven gather, depending on the backend
AllGatherOutcomes(views, buf, n) ==
    IF Len(views) # n THEN {"error"}
    ELSE IF \E k \in 1..n : views[k] # buf.shape THEN {"error", "uneven"}
    ELSE {"even"}

\* mutant: the position saved by AllGatherLast.forward is the one in the row group
AllGatherLast_ctx_rank_in_row(rk, col_parallel_mode) == LocalRank("ROW", rk)

\* ctx.row_rank of AllGatherLast.forward: gpc.get_local_rank(col_parallel_mode)
AllGatherLast_ctx_rank(rk, col_parallel_mode) == LocalRank(col_parallel_mode, rk)

\* the shape of the receive buffer of AllGatherLast.forward
AllGatherLast_outputs_shape(inputs, tesseract_dim) ==
    <<tesseract_dim * LastDim(inputs.shape)>>
       \o SubSeq(inputs.shape, 1, Len(inputs.shape) - 1)

\* forward up to the all_gather of the permuted input over the column group
AllGatherLast_forward_gather(rk) ==
    LET p == proc[rk]
        d == p.arg.tesseract_dim
        sent == Permute201(p.inputs)
        views == ChunkShapes(AllGatherLast_outputs_shape(p.inputs, d), d)
        q == [p EXCEPT !.ctx = [tesseract_dim |-> d,
                                row_rank |-> AllGatherLast_ctx_rank(
                                                rk, p.arg.col_parallel_mode)]]
    IN  /\ p.pc = "run" /\ p.f = "AllGatherLast" /\ p.at = "start"
        /\ \E o \in AllGatherOutcomes(views, sent,
                                      Cardinality(Group(p.arg.col_parallel_mode, rk))) :
             proc' = [proc EXCEPT ![rk] =
                        IF o = "error" THEN [q EXCEPT !.pc = "failed"]
                        ELSE Issue(q, "gather", "all_gather",
                                   p.arg.col_parallel_mode, -1, sent)]
        /\ UNCHANGED <<dim, fn, slice, inp>>

\* outputs.permute(1, 2, 0).contiguous() and the return of forward
AllGatherLast_forward_return(rk) ==
    LET p == proc[rk]
        outputs == Gathered(AllGatherLast_outputs_shape(p.inputs, p.arg.tesseract_dim),
                            p.call.list)
    IN  /\ p.pc = "run" /\ p.f = "AllGatherLast" /\ p.at = "gather"
        /\ proc' = [proc EXCEPT ![rk] =
                      [p EXCEPT !.pc = "returned", !.call = NoCall,
                                !.out = Permute120(outputs)]]
        /\ UNCHANGED <<dim, fn, slice, inp>>

\* the gradient the engine hands to backward on rank rk: the forward output itself
\* (the round trip), or a gradient of its own of the same shape
IncomingGradient(rk) ==
    IF inp[rk].feed = "output" THEN proc[rk].out
    ELSE Ramp(proc[rk].out.shape, inp[rk].fresh)

\* AllGatherLast.backward: the chunk of output_grad at ctx.row_rank
AllGatherLast_backward(rk) ==
    LET p == proc[rk]
        g == IncomingGradient(rk)
        chunks == ChunkLast(g, p.ctx.tesseract_dim)
    IN  /\ p.pc = "returned" /\ p.f = "AllGatherLast"
        /\ proc' = [proc EXCEPT ![rk] =
                      IF p.ctx.row_rank + 1 > Len(chunks)
                      THEN [p EXCEPT !.pc = "failed", !.output_grad = g]
                      ELSE [p EXCEPT !.pc = "done", !.output_grad = g,
                                     !.ret = <<chunks[p.ctx.row_rank + 1], NoneT, NoneT>>]]
        /\ UNCHANGED <<dim, fn, slice, inp>>

\* row_rank of SplitFirst.forward: gpc.get_local_rank(col_parallel_mode)
SplitFirst_row_rank(rk, col_parallel_mode) == LocalRank(col_parallel_mode, rk)

\* SplitFirst.forward: the chunk of inputs at row_rank; indexing past the chunks
\* that torch.chunk returned raises
SplitFirst_forward(rk) ==
    LET p == proc[rk]
        chunks == Chunk(p.inputs, p.arg.tesseract_dim)
        row_rank == SplitFirst_row_rank(rk, p.arg.col_parallel_mode)
        q == [p EXCEPT !.ctx = [tesseract_dim |-> p.arg.tesseract_dim,
                                batch_size |-> p.inputs.shape[1],
                                para_mode |-> p.arg.col_parallel_mode]]
    IN  /\ p.pc = "run" /\ p.f = "SplitFirst" /\ p.at = "start"
        /\ proc' = [proc EXCEPT ![rk] =
                      IF row_rank + 1 > Len(chunks) THEN [q EXCEPT !.pc = "failed"]
                      ELSE [q EXCEPT !.pc = "returned", !.out = chunks[row_rank + 1]]]
        /\ UNCHANGED <<dim, fn, slice, inp>>

\* the shape of the buffer SplitFirst.backward gathers into
SplitFirst_grad_shape(ctx, output_grad) == <<ctx.batch_size>> \o Tail(output_grad.shape)

\* SplitFirst.backward up to the all_gather of output_grad over ctx.para_mode
SplitFirst_backward_gather(rk) ==
    LET p == proc[rk]
        g == IncomingGradient(rk)
        views == ChunkShapes(SplitFirst_grad_shape(p.ctx, g), p.ctx.tesseract_dim)
    IN  /\ p.pc = "returned" /\ p.f = "SplitFirst"
        /\ \E o \in AllGatherOutcomes(views, g, Cardinality(Group(p.ctx.para_mode, rk))) :
             proc' = [proc EXCEPT ![rk] =
                        IF o = "error" THEN [p EXCEPT !.pc = "failed", !.output_grad = g]
                        ELSE Issue([p EXCEPT !.output_grad = g, !.phase = 1], "gather",
                                   "all_gather", p.ctx.para_mode, -1, g)]
        /\ UNCHANGED <<dim, fn, slice, inp>>

\* the return of SplitFirst.backward
SplitFirst_backward_return(rk) ==
    LET p == proc[rk]
        grad == Gathered(SplitFirst_grad_shape(p.ctx, p.output_grad), p.call.list)
    IN  /\ p.pc = "run" /\ p.f = "SplitFirst" /\ p.at = "gather"
        /\ proc' = [proc EXCEPT ![rk] =
                      [p EXCEPT !.pc = "done", !.call = NoCall,
                                !.ret = <<grad, NoneT, NoneT>>]]
        /\ UNCHANGED <<dim, fn, slice, inp>>

\* a rank before the engine calls forward of AllGatherLast or SplitFirst
ShardBlank ==
    [pc |-> "run", at |-> "start", top |-> "", f |-> "", phase |-> 0, arg |-> NoneT,
     inputs |-> NoneT, call |-> NoCall, ctx |-> NoneT, out |-> NoneT,
     output_grad |-> NoneT, ret |-> <<>>]

\* the tensor handed to rank rk: for SplitFirst the tensor of its column group, of
\* leading length lead; for AllGatherLast a tile of its own
ShardInput(f, rk, lead, d) ==
    IF f = "SplitFirst" THEN Ramp(<<lead, TileM, TileK>>, 1 + 100 * rk[2])
    ELSE Ramp(<<Batch, TileK, TileN>>, 1 + 100 * (rk[1] * d + rk[2]))

\* the engine has called forward on every rank of a slice
ShardInit ==
    /\ dim \in 1..MaxDim
    /\ fn \in {"AllGatherLast", "SplitFirst"}
    /\ slice \in Slices
    /\ \E lead \in 1..MaxLead, feed \in {"output", "fresh"} :
         inp = [rk \in Ranks(dim) |->
                  [inputs |-> ShardInput(fn, rk, lead, dim), feed |-> feed,
                   fresh |-> 1000 + 100 * (rk[1] * dim + rk[2])]]
    /\ proc = [rk \in Ranks(dim) |->
                 [ShardBlank EXCEPT !.top = fn, !.f = fn,
                                    !.arg = [tesseract_dim |-> dim,
                                             col_parallel_mode |-> "COL"],
                                    !.inputs = inp[rk].inputs]]

ShardNext ==
    \/ \E rk \in Ranks(dim) : AllGatherLast_forward_gather(rk)
    \/ \E rk \in Ranks(dim) : AllGatherLast_forward_return(rk)
    \/ \E rk \in Ranks(dim) : AllGatherLast_backward(rk)
    \/ \E rk \in Ranks(dim) : SplitFirst_forward(rk)
    \/ \E rk \in Ranks(dim) : SplitFirst_backward_gather(rk)
    \/ \E rk \in Ranks(dim) : SplitFirst_backward_return(rk)
    \/ \E mode \in {"ROW", "COL"}, rk \in Ranks(dim) : AllGather(mode, rk)

ShardSpec == ShardInit /\ [][ShardNext]_vars

\* C13 (as stated): for any tesseract_dim and any leading-dimension length, when
\* every rank of a group runs SplitFirst.forward on one tensor X and then
\* SplitFirst.backward on its forward output, no rank fails and every rank that
\* returns from backward holds exactly X.
C13_SplitFirstRoundTrip ==
    fn = "SplitFirst" =>
       \A rk \in Ranks(dim) :
          inp[rk].feed = "output" =>
             /\ proc[rk].pc # "failed"
             /\ BackwardReturned(rk) => proc[rk].ret[1] = inp[rk].inputs

\* a rank failed in SplitFirst.forward: its position is past the chunks of X
C13_Witness ==
    /\ fn = "SplitFirst" /\ dim = 2
    /\ \E rk \in Ranks(dim) :
          /\ inp[rk].feed = "output" /\ proc[rk].pc = "failed"
          /\ proc[rk].out = NoneT /\ rk[1] >= inp[rk].inputs.shape[1]

\* the round trip of SplitFirst when the leading length is a multiple of
\* tesseract_dim: no rank fails, and backward returns X on every rank
SplitFirst_RoundTripWhenDivisible ==
    fn = "SplitFirst" =>
       \A rk \in Ranks(dim) :
          (inp[rk].feed = "output" /\ inp[rk].inputs.shape[1] % dim = 0) =>
             /\ proc[rk].pc # "failed"
             /\ BackwardReturned(rk) => proc[rk].ret[1] = inp[rk].inputs

\* C14: after AllGatherLast.forward every rank of a column group holds the tensor
\* whose trailing axis is tesseract_dim times wider and whose p-th trailing chunk is
\* the input of the member at position p; backward issues no collective and
\* returns the trailing chunk of the incoming gradient at the rank's own position
\* in that group, so backward of the forward output returns the rank's input.
C14_AllGatherLast ==
    fn = "AllGatherLast" =>
       \A rk \in Ranks(dim) :
          LET X == inp[rk].inputs
              a == X.shape[1]
              b == X.shape[2]
              h == X.shape[3]
              g == proc[rk].output_grad
              own == LocalRank("COL", rk)
          IN  /\ proc[rk].pc # "failed"
              /\ proc[rk].pc = "wait" => proc[rk].out = NoneT
              /\ ForwardReturned(rk) =>
                    /\ proc[rk].out.shape = <<a, b, dim * h>>
                    /\ \A p \in 0..(dim - 1), row \in 0..(a * b - 1), z \in 1..h :
                          proc[rk].out.data[row * (dim * h) + p * h + z]
                             = inp[Member("COL", rk, p)].inputs.data[row * h + z]
              /\ BackwardReturned(rk) =>
                    /\ proc[rk].ret[1].shape = <<a, b, h>>
                    /\ \A row \in 0..(a * b - 1), z \in 1..h :
                          proc[rk].ret[1].data[row * h + z]
                             = g.data[row * (dim * h) + own * h + z]
                    /\ inp[rk].feed = "output" => proc[rk].ret[1] = X

C14_Witness ==
    /\ fn = "AllGatherLast" /\ dim = 2 /\ AllBackwardReturned
    /\ \E rk \in Ranks(dim) :
          /\ rk[1] = 1 /\ rk[2] = 0 /\ inp[rk].feed = "output"
          /\ proc[rk].ret[1] = inp[rk].inputs

(* --------------------------- _LayerNorm_2p5D -------------------------- *)

\* Tensors of the backward of _LayerNorm_2p5D carry a common denominator den: the
\* true division by hidden_size is exact, entry k being data[k] / den.
Q(X) == [shape |-> X.shape, data |-> X.data, den |-> 1]

\* X /= n
QDiv(X, n) == [X EXCEPT !.den = X.den * n]

\* the entry of Y that broadcasting pairs with entry k of a tensor of this shape:
\* Y has that shape, or is a column [rows, 1]
BroadcastAt(Y, shape, k) ==
    IF LastDim(Y.shape) = 1 THEN Y.data[((k - 1) \div LastDim(shape)) + 1] ELSE Y.data[k]

\* X - Y and X * Y with broadcasting along the last dimension
QSub(X, Y) ==
    [shape |-> X.shape,
     data |-> [k \in 1..Len(X.data) |->
                 X.data[k] * Y.den - BroadcastAt(Y, X.shape, k) * X.den],
     den |-> X.den * Y.den]

QMul(X, Y) ==
    [shape |-> X.shape,
     data |-> [k \in 1..Len(X.data) |-> X.data[k] * BroadcastAt(Y, X.shape, k)],
     den |-> X.den * Y.den]

\* torch.sum(X, dim=-1, keepdim=True) of a 2D tensor
RowSum(X) ==
    LET n == LastDim(X.shape)
        rows == Numel(X.shape) \div n
    IN  [shape |-> <<rows, 1>>,
         data |-> [r \in 1..rows |-> SumSeq([t \in 1..n |-> X.data[(r - 1) * n + t]])]]

\* the integer tensor of a tensor with denominator 1
Plain(X) == [shape |-> X.shape, data |-> X.data]

\* dist.all_reduce: every member's buffer becomes the sum of the members' buffers
AllReduce(mode, rk) ==
    LET g == Group(mode, rk)
        total == SumBufs(g)
    IN  /\ AllWaiting(g, "all_reduce", mode)
        /\ proc' = [q \in DOMAIN proc |->
                      IF q \in g
                      THEN [proc[q] EXCEPT !.pc = "run", !.call.buf = total]
                      ELSE proc[q]]
        /\ UNCHANGED <<dim, fn, slice, inp>>

\* _LayerNorm_2p5D.forward: output = (input - E_x) * Var_x
LayerNorm_forward(rk) ==
    LET p == proc[rk]
        input == Plain(QSub(Q(p.input), Q(p.E_x)))
        output == Plain(QMul(Q(input), Q(p.Var_x)))
    IN  /\ p.pc = "run" /\ p.f = "LayerNorm" /\ p.at = "start"
        /\ proc' = [proc EXCEPT ![rk] =
                      [p EXCEPT !.pc = "returned", !.out = output,
                                !.ctx = [hidden_size |-> p.arg.hidden_size,
                                         saved_tensors |-> <<output, p.Var_x>>,
                                         row_parallel_mode |-> p.arg.row_parallel_mode]]]
        /\ UNCHANGED <<dim, fn, slice, inp>>

\* mutant: the sums are all-reduced over the column group
LayerNorm_group_col(ctx) == "COL"

\* the group of the two all-reduces of backward
LayerNorm_group(ctx) == ctx.row_parallel_mode

\* backward up to the all_reduce of output_grad_sum
LayerNorm_backward_sum(rk) ==
    LET p == proc[rk]
        g == inp[rk].output_grad
    IN  /\ p.pc = "returned" /\ p.f = "LayerNorm"
        /\ proc' = [proc EXCEPT ![rk] =
                      Issue([p EXCEPT !.output_grad = g, !.phase = 1], "sum", "all_reduce",
                            LayerNorm_group(p.ctx), -1, RowSum(g))]
        /\ UNCHANGED <<dim, fn, slice, inp>>

\* output_grad_sum /= hidden_size, then up to the all_reduce of output_grad_mul_x_sum
LayerNorm_backward_mul_x_sum(rk) ==
    LET p == proc[rk]
        x == p.ctx.saved_tensors[1]
        q == [p EXCEPT !.output_grad_sum = QDiv(Q(p.call.buf), p.ctx.hidden_size)]
    IN  /\ p.pc = "run" /\ p.f = "LayerNorm" /\ p.at = "sum"
        /\ proc' = [proc EXCEPT ![rk] =
                      Issue(q, "mul_x_sum", "all_reduce", LayerNorm_group(p.ctx), -1,
                            RowSum(Plain(QMul(Q(p.output_grad), Q(x)))))]
        /\ UNCHANGED <<dim, fn, slice, inp>>

\* input_grad of backward, from the two all-reduced and divided sums
LayerNorm_input_grad(output_grad, x, Var_x, output_grad_sum, output_grad_mul_x_sum) ==
    QMul(QSub(QSub(Q(output_grad), QMul(Q(x), output_grad_mul_x_sum)), output_grad_sum),
         Q(Var_x))

\* output_grad_mul_x_sum /= hidden_size, input_grad, and the return of backward
LayerNorm_backward_return(rk) ==
    LET p == proc[rk]
        x == p.ctx.saved_tensors[1]
        Var_x == p.ctx.saved_tensors[2]
        output_grad_mul_x_sum == QDiv(Q(p.call.buf), p.ctx.hidden_size)
        input_grad == LayerNorm_input_grad(p.output_grad, x, Var_x, p.output_grad_sum,
                                           output_grad_mul_x_sum)
    IN  /\ p.pc = "run" /\ p.f = "LayerNorm" /\ p.at = "mul_x_sum"
        /\ proc' = [proc EXCEPT ![rk] =
                      [p EXCEPT !.pc = "done", !.call = NoCall,
                                !.output_grad_mul_x_sum = output_grad_mul_x_sum,
                                !.ret = <<input_grad, NoneT, NoneT, NoneT, NoneT, NoneT,
                                          NoneT>>]]
        /\ UNCHANGED <<dim, fn, slice, inp>>

\* a rank before the engine calls _LayerNorm_2p5D.forward
LayerNormBlank ==
    [pc |-> "run", at |-> "start", top |-> "LayerNorm", f |-> "LayerNorm", phase |-> 0,
     arg |-> NoneT, input |-> NoneT, E_x |-> NoneT, Var_x |-> NoneT, call |-> NoCall,
     ctx |-> NoneT, out |-> NoneT, output_grad |-> NoneT, output_grad_sum |-> NoneT,
     output_grad_mul_x_sum |-> NoneT, ret |-> <<>>]

\* the engine has called _LayerNorm_2p5D.forward on every rank of a slice, with the
\* hidden dimension sharded over the row group: hidden_size is the full width
LayerNormInit ==
    /\ dim \in 1..MaxDim
    /\ fn = "LayerNorm"
    /\ slice \in Slices
    /\ \E sg \in Supports(dim), vi \in 1..MaxVal, vg \in 1..MaxVal, ve \in 0..MaxVal :
         inp = [rk \in Ranks(dim) |->
                  [input |-> TileOf(Everywhere, vi, rk, <<Batch, TileK>>, dim),
                   E_x |-> Ramp(<<Batch, 1>>, ve + rk[1]),
                   Var_x |-> Ramp(<<Batch, 1>>, 2 + rk[1]),
                   hidden_size |-> TileK * dim,
                   output_grad |-> TileOf(sg, vg, rk, <<Batch, TileK>>, dim)]]
    /\ proc = [rk \in Ranks(dim) |->
                 [LayerNormBlank EXCEPT
                    !.arg = [hidden_size |-> inp[rk].hidden_size,
                             row_parallel_mode |-> "ROW"],
                    !.input = inp[rk].input, !.E_x = inp[rk].E_x,
                    !.Var_x = inp[rk].Var_x]]

LayerNormNext ==
    \/ \E rk \in Ranks(dim) : LayerNorm_forward(rk)
    \/ \E rk \in Ranks(dim) : LayerNorm_backward_sum(rk)
    \/ \E rk \in Ranks(dim) : LayerNorm_backward_mul_x_sum(rk)
    \/ \E rk \in Ranks(dim) : LayerNorm_backward_return(rk)
    \/ \E mode \in {"ROW", "COL"}, rk \in Ranks(dim) : AllReduce(mode, rk)

LayerNormSpec == LayerNormInit /\ [][LayerNormNext]_vars

\* equality of two tensors with denominators
QEq(X, Y) ==
    /\ X.shape = Y.shape
    /\ \A k \in 1..Len(X.data) : X.data[k] * Y.den = Y.data[k] * X.den

\* the output of forward on rank rk: (input - E_x) * Var_x
LayerNormOutput(rk) ==
    [shape |-> inp[rk].input.shape,
     data |-> [k \in 1..Len(inp[rk].input.data) |->
                 (inp[rk].input.data[k] - inp[rk].E_x.data[((k - 1) \div TileK) + 1])
                    * inp[rk].Var_x.data[((k - 1) \div TileK) + 1]]]

\* entry k of grad_out * output on rank rk
GradTimesOutput(rk) ==
    [shape |-> inp[rk].output_grad.shape,
     data |-> [k \in 1..Len(inp[rk].output_grad.data) |->
                 inp[rk].output_grad.data[k] * LayerNormOutput(rk).data[k]]]

\* the sums over the row group of rk of the members' local row sums
RowGroupSum(rk) ==
    SumTiles([k \in 1..dim |-> RowSum(inp[<<rk[1], k - 1>>].output_grad)])

RowGroupMulSum(rk) ==
    SumTiles([k \in 1..dim |-> RowSum(GradTimesOutput(<<rk[1], k - 1>>))])

\* C15: after _LayerNorm_2p5D.backward on the ranks of a row group, on every rank
\* sum_term is the sum over all members of the group of their row_sum(grad_out),
\* divided by hidden_size, and mean_term the sum over all members of their
\* row_sum(grad_out * output), divided by hidden_size; each member is counted once
\* and the terms are the same on all members; the input gradient returned is
\* Var_x * (grad_out - output * mean_term - sum_term).
C15_LayerNormBackward ==
    fn = "LayerNorm" =>
       \A rk \in Ranks(dim) :
          BackwardReturned(rk) =>
             LET H == inp[rk].hidden_size
                 S1 == RowGroupSum(rk)
                 S2 == RowGroupMulSum(rk)
                 g == inp[rk].output_grad
                 out == LayerNormOutput(rk)
                 Row(k) == ((k - 1) \div TileK) + 1
             IN  /\ QEq(proc[rk].output_grad_sum, S1 @@ [den |-> H])
                 /\ QEq(proc[rk].output_grad_mul_x_sum, S2 @@ [den |-> H])
                 /\ \A q \in Group("ROW", rk) :
                       BackwardReturned(q) =>
                          /\ QEq(proc[q].output_grad_sum, proc[rk].output_grad_sum)
                          /\ QEq(proc[q].output_grad_mul_x_sum,
                                 proc[rk].output_grad_mul_x_sum)
                 /\ QEq(proc[rk].ret[1],
                        [shape |-> g.shape,
                         data |-> [k \in 1..Len(g.data) |->
                                     inp[rk].Var_x.data[Row(k)]
                                        * (H * g.data[k] - out.data[k] * S2.data[Row(k)]
                                             - S1.data[Row(k)])],
                         den |-> H])

C15_Witness ==
    /\ fn = "LayerNorm" /\ dim = 2 /\ AllBackwardReturned
    /\ \E rk \in Ranks(dim) :
          /\ RowGroupSum(rk) # RowSum(inp[rk].output_grad)
          /\ NonZero(RowSum(inp[rk].output_grad))
          /\ NonZero(proc[rk].ret[1])
          /\ \E k \in 1..Len(proc[rk].ret[1].data) :
                proc[rk].ret[1].data[k] % proc[rk].ret[1].den # 0

(* ------------------ the loops of the matmul forwards ------------------ *)

\* rank rk is about to run the accumulation loop of Matmul_AB_2p5D.forward: both
\* all_gathers have completed
AB_AtLoop(rk) == proc[rk].pc = "run" /\ proc[rk].f = "AB" /\ proc[rk].at = "gatherB"

\* what the forward that rank state p is in has returned, in the rank state q
\* after the return: to the engine, or to the backward that called it
Returned(p, q) ==
    CASE p.phase = 0 -> q.out
      [] p.phase = 1 -> q.A_grad
      [] p.phase = 2 -> q.ret[2]

\* C16 (as stated): in iteration i of the loop of Matmul_AB_2p5D.forward the rank
\* at (row_rank, col_rank) multiplies A_list[(i + row_rank) mod d] and
\* B_list[(i + col_rank) mod d] and accumulates the product into C.
C16_AsStated ==
    [][\A rk \in Ranks(dim) :
          (AB_AtLoop(rk) /\ proc'[rk] # proc[rk]) =>
             LET p == proc[rk]
                 d == p.arg.tesseract_dim
             IN  /\ \A i \in 0..(d - 1) :
                       /\ AB_src_a(i, p.arg) = (i + p.arg.row_rank) % d
                       /\ AB_src_b(i, p.arg) = (i + p.arg.col_rank) % d
                 /\ Returned(p, proc'[rk]) =
                       Reshape(SumTiles([k \in 1..d |->
                                  Matmul(p.A_list[((k - 1 + p.arg.row_rank) % d) + 1],
                                         p.call.list[((k - 1 + p.arg.col_rank) % d) + 1])]),
                               p.out_shape)]_vars

\* C16 (amended): in iteration i of the loop of Matmul_AB_2p5D.forward every rank
\* multiplies A_list[i] and B_list[i], the i-th gathered tiles, and accumulates the
\* product into C: the indices (i + d*row_rank) mod d and (i + d*col_rank) mod d
\* are i whatever the rank's coordinates.
C16_AB_LoopIndices ==
    [][\A rk \in Ranks(dim) :
          (AB_AtLoop(rk) /\ proc'[rk] # proc[rk]) =>
             LET p == proc[rk]
                 d == p.arg.tesseract_dim
             IN  /\ \A i \in 0..(d - 1) :
                       AB_src_a(i, p.arg) = i /\ AB_src_b(i, p.arg) = i
                 /\ Returned(p, proc'[rk]) =
                       Reshape(SumTiles([k \in 1..d |->
                                  Matmul(p.A_list[k], p.call.list[k])]),
                               p.out_shape)]_vars

\* a rank off the diagonal of a 2 x 2 grid has run the loop on non-zero tiles
C16_Witness ==
    /\ fn = "AB" /\ dim = 2
    /\ \E rk \in Ranks(dim) :
          /\ rk[1] # rk[2] /\ ForwardReturned(rk) /\ NonZero(proc[rk].out)
          /\ \A k \in 0..(dim - 1) : NonZero(inp[<<rk[1], k>>].A)

\* rank rk waits in a collective of this kind issued by the forward of Function f
WaitsIn(rk, f, kind) ==
    proc[rk].pc = "wait" /\ proc[rk].f = f /\ proc[rk].call.kind = kind

\* C17 (as stated): in iteration i of Matmul_ABT_2p5D.forward the broadcast source
\* is the rank whose column coordinate is i and the reduce destination the rank
\* whose row coordinate is i, the other coordinates being the caller's.
C17_AsStated ==
    \A rk \in Ranks(dim) :
       /\ WaitsIn(rk, "ABT", "broadcast") =>
             proc[rk].call.root = GlobalRank(<<rk[1], proc[rk].i>>)
       /\ WaitsIn(rk, "ABT", "reduce") =>
             proc[rk].call.root = GlobalRank(<<proc[rk].i, rk[2]>>)

\* C17 (amended): in iteration i of Matmul_ABT_2p5D.forward the broadcast source is
\* the rank whose row coordinate is i, in the caller's column, and the reduce
\* destination is the rank whose column coordinate is i, in the caller's row; the
\* other coordinates are the caller's.
C17_ABT_Roots ==
    \A rk \in Ranks(dim) :
       /\ WaitsIn(rk, "ABT", "broadcast") =>
             proc[rk].call.root = GlobalRank(<<proc[rk].i, rk[2]>>)
       /\ WaitsIn(rk, "ABT", "reduce") =>
             proc[rk].call.root = GlobalRank(<<rk[1], proc[rk].i>>)

C17_Witness ==
    /\ dim = 2 /\ slice.dep_rank > 0
    /\ \E rk \in Ranks(dim) :
          /\ WaitsIn(rk, "ABT", "reduce") /\ proc[rk].i = 1 /\ rk = <<0, 0>>
          /\ proc[rk].call.root = GlobalRank(<<0, 1>>)
    /\ \E rk \in Ranks(dim) :
          /\ WaitsIn(rk, "ABT", "broadcast") /\ proc[rk].i = 1 /\ rk[1] = 0
          /\ proc[rk].call.root = GlobalRank(<<1, rk[2]>>)

(* ------------------- rendezvous of the collectives -------------------- *)

\* every rank of a slice runs one of the matmul Functions or Add_Bias_2p5D,
\* forward and then backward
RendezvousInit == FairInit \/ BiasInit

RendezvousNext ==
    \/ \E rk \in Ranks(dim) : AB_forward_gatherA(rk)
    \/ \E rk \in Ranks(dim) : AB_forward_gatherB(rk)
    \/ \E rk \in Ranks(dim) : AB_forward_loop(rk)
    \/ \E rk \in Ranks(dim) : ABT_forward_begin(rk)
    \/ \E rk \in Ranks(dim) : ABT_forward_reduce(rk)
    \/ \E rk \in Ranks(dim) : ABT_forward_next(rk)
    \/ \E rk \in Ranks(dim) : ATB_forward_begin(rk)
    \/ \E rk \in Ranks(dim) : ATB_forward_reduce(rk)
    \/ \E rk \in Ranks(dim) : ATB_forward_next(rk)
    \/ \E rk \in Ranks(dim) : proc[rk].f # "Bias" /\ Backward(rk)
    \/ \E rk \in Ranks(dim) : Add_Bias_forward_broadcast(rk)
    \/ \E rk \in Ranks(dim) : Add_Bias_forward_return(rk)
    \/ \E rk \in Ranks(dim) : Add_Bias_backward_reduce(rk)
    \/ \E rk \in Ranks(dim) : Add_Bias_backward_return(rk)
    \/ \E mode \in {"ROW", "COL"}, rk \in Ranks(dim) : AllGather(mode, rk)
    \/ \E mode \in {"ROW", "COL"}, rk \in Ranks(dim) : Broadcast(mode, rk)
    \/ \E mode \in {"ROW", "COL"}, rk \in Ranks(dim) : Reduce(mode, rk)

RendezvousSpec == RendezvousInit /\ [][RendezvousNext]_vars

\* the group a collective of this kind is issued on by the forward of Function f
\* (for Add_Bias_2p5D, by forward and backward)
NamedGroup(f, kind) ==
    CASE f = "ABT" /\ kind = "broadcast" -> "COL"
      [] f = "ABT" /\ kind = "reduce" -> "ROW"
      [] f = "ATB" /\ kind = "broadcast" -> "ROW"
      [] f = "ATB" /\ kind = "reduce" -> "COL"
      [] f = "Bias" -> "COL"

\* C18: whenever members of a group wait together in a collective on that group
\* (collectives complete for all members at once, so they are at the same
\* collective of the group's sequence), they have issued the same kind of
\* collective with the same root; the root of a broadcast or reduce is a member of
\* the group of the call, which is the column group for the broadcast of
\* Matmul_ABT_2p5D, the reduce of Matmul_ATB_2p5D and both collectives of
\* Add_Bias_2p5D, and the row group for the reduce of Matmul_ABT_2p5D and the
\* broadcast of Matmul_ATB_2p5D.
C18_MatchedRendezvous ==
    \A rk \in Ranks(dim) :
       proc[rk].pc = "wait" =>
          LET c == proc[rk].call
          IN  /\ \A q \in Group(c.mode, rk) :
                    (proc[q].pc = "wait" /\ proc[q].call.mode = c.mode) =>
                       proc[q].call.kind = c.kind /\ proc[q].call.root = c.root
              /\ c.kind \in {"broadcast", "reduce"} =>
                    /\ \E q \in Group(c.mode, rk) : GlobalRank(q) = c.root
                    /\ c.mode = NamedGroup(proc[rk].f, c.kind)

\* both members of a group of a 2 x 2 grid wait in a reduce whose destination is
\* the second of them
C18_Witness ==
    /\ dim = 2 /\ slice.dep_rank > 0
    /\ \E rk \in Ranks(dim), mode \in {"ROW", "COL"} :
          /\ \A q \in Group(mode, rk) :
                proc[q].pc = "wait" /\ proc[q].call.mode = mode
                   /\ proc[q].call.kind = "reduce" /\ proc[q].call.root = GlobalRank(rk)
          /\ LocalRank(mode, rk) = 1

\* rank rk is back from the reduce of an iteration of Matmul_ABT_2p5D.forward or
\* Matmul_ATB_2p5D.forward, before the `if` that may keep C_temp
AfterReduce(rk) ==
    proc[rk].pc = "run" /\ proc[rk].f \in {"ABT", "ATB"} /\ proc[rk].at = "reduce"

\* whether iteration i of the forward of Function f copies C_temp into C
Keeps(f, i, arg) == IF f = "ABT" THEN ABT_keeps(i, arg) ELSE ATB_keeps(i, arg)

\* the contents of buffer X are determined
Determined(X) == "unspec" \notin DOMAIN X

\* C19: in Matmul_ABT_2p5D.forward and Matmul_ATB_2p5D.forward a rank copies C_temp
\* into C in iteration i exactly when it is the destination of the reduce of
\* iteration i; exactly one iteration does; the buffer copied is the destination's,
\* which holds the reduced value, while the buffer of an iteration that is not
\* kept is unspecified and is dropped; so the C that forward returns is the value
\* kept, never the uninitialised buffer C started as.
C19_KeepsOnlyReduceDestination ==
    [][\A rk \in Ranks(dim) :
          (AfterReduce(rk) /\ proc'[rk] # proc[rk]) =>
             LET p == proc[rk]
                 d == p.arg.tesseract_dim
                 dest == p.call.root = GlobalRank(rk)
                 last == p.i + 1 = d
                 kept == IF dest THEN p.call.buf ELSE p.C
             IN  /\ Keeps(p.f, p.i, p.arg) <=> dest
                 /\ Cardinality({i \in 0..(d - 1) : Keeps(p.f, i, p.arg)}) = 1
                 /\ Determined(p.call.buf) <=> dest
                 /\ Determined(p.C) <=> \E i \in 0..(p.i - 1) : Keeps(p.f, i, p.arg)
                 /\ ~last => proc'[rk].C = kept
                 /\ last => /\ Determined(kept)
                            /\ Returned(p, proc'[rk]) = Reshape(kept, p.out_shape)]_vars

\* a rank that already kept the value of iteration 0 drops the unspecified buffer
\* the reduce of iteration 1 left it, and returns the value kept
C19_Witness ==
    /\ dim = 2
    /\ \E rk \in Ranks(dim) :
          /\ AfterReduce(rk) /\ proc[rk].i = 1
          /\ ~Determined(proc[rk].call.buf) /\ Determined(proc[rk].C)
          /\ NonZero(proc[rk].C)
          /\ \E t \in proc[rk].call.buf.may : t # proc[rk].C

(* ------------------- metadata threaded by backward -------------------- *)

\* rank rk is in a forward that its backward called
InSibling(rk) == proc[rk].phase \in {1, 2} /\ proc[rk].pc \in {"run", "wait"}

\* C20: the two sibling forwards that the backward of Matmul_AB_2p5D,
\* Matmul_ABT_2p5D and Matmul_ATB_2p5D calls receive, each in the position of the
\* parameter of that name, the tesseract_dim, row_rank, col_rank, dep_rank, row and
\* column group, data_parallel_rank, pipeline_parallel_rank, pipeline_parallel_size
\* and tensor_parallel_size that the engine passed to the original forward.
C20_MetadataThreaded ==
    \A rk \in Ranks(dim) :
       /\ proc[rk].pc = "returned" =>
             \A k \in 1..Len(MetadataParams) :
                SiblingMetadata(proc[rk].ctx)[k] = Metadata(rk)[MetadataParams[k]]
       /\ InSibling(rk) =>
             /\ proc[rk].arg = Metadata(rk)
             /\ proc[rk].f # proc[rk].top

C20_Witness ==
    /\ dim = 2 /\ slice.dep_rank > 0
    /\ \E rk \in Ranks(dim) :
          /\ rk = <<1, 0>> /\ InSibling(rk) /\ proc[rk].phase = 2
          /\ proc[rk].pc = "wait" /\ proc[rk].arg = Metadata(rk)

(* ---------------- tensors, storages and in-place writes --------------- *)

\* A tensor of the program is a view [st, shape] of a storage of its rank; mem maps
\* the storages a rank has allocated to their contents.  The tensors the caller
\* passes to forward live in the storages <<name, 0>>.
CallerStorage(name) == <<name, 0>>

\* contents X seen through (or written through) a view of another shape
Rebase(X, shape) ==
    IF "unspec" \in DOMAIN X THEN Unspecified({Reshape(t, shape) : t \in X.may})
    ELSE Reshape(X, shape)

\* the value of tensor t
Load(mem, t) == Rebase(mem[t.st], t.shape)

\* an in-place write of X into tensor t: the storage of t changes, and with it
\* every tensor that views that storage
Store(mem, t, X) == [mem EXCEPT ![t.st] = Rebase(X, ShapeOf(mem[t.st]))]

\* a new storage st holding X, and the tensor that views it
Alloc(mem, st, X) == [mem |-> (st :> X) @@ mem, t |-> [st |-> st, shape |-> ShapeOf(X)]]

\* mutant: the temporary is the tensor itself, not a copy of it
Clone_aliased(mem, t, st) == [mem |-> mem, t |-> t]

\* t.clone(): a new storage st with the contents of t
Clone(mem, t, st) == Alloc(mem, st, Load(mem, t))

\* t.reshape((-1, t.shape[-1])) of a contiguous tensor: a view of the same storage
View2D(t) ==
    [st |-> t.st, shape |-> <<Numel(t.shape) \div LastDim(t.shape), LastDim(t.shape)>>]

\* t.reshape(shape) of a contiguous tensor
View(t, shape) == [st |-> t.st, shape |-> shape]

\* the sum of the tensors the members of g handed to dist.reduce
RECURSIVE SumStored(_)
SumStored(g) ==
    LET q == CHOOSE x \in g : TRUE
        X == Load(proc[q].mem, proc[q].call.buf)
    IN  IF Cardinality(g) = 1 THEN X ELSE TAdd(X, SumStored(g \ {q}))

\* dist.broadcast(tensor, src, group): on every member the tensor handed in is
\* overwritten in place with the source's
Broadcast_inplace(mode, rk) ==
    LET g == Group(mode, rk)
        src == RootMember(g)
        X == Load(proc[src].mem, proc[src].call.buf)
    IN  /\ AllWaiting(g, "broadcast", mode)
        /\ SameRoot(g)
        /\ proc' = [q \in DOMAIN proc |->
                      IF q \in g
                      THEN [proc[q] EXCEPT !.pc = "run",
                                           !.mem = Store(@, proc[q].call.buf, X)]
                      ELSE proc[q]]
        /\ UNCHANGED <<dim, fn, slice, inp>>

\* dist.reduce(tensor, dst, group): the destination's tensor is overwritten in place
\* with the sum; the tensor of any other member is left as it was or overwritten
\* with the sum
Reduce_inplace(mode, rk) ==
    LET g == Group(mode, rk)
        total == SumStored(g)
    IN  /\ AllWaiting(g, "reduce", mode)
        /\ SameRoot(g)
        /\ proc' = [q \in DOMAIN proc |->
                      IF q \in g
                      THEN [proc[q] EXCEPT
                              !.pc = "run",
                              !.mem = Store(@, proc[q].call.buf,
                                            IF q = RootMember(g) THEN total
                                            ELSE Unspecified(
                                                   {Load(proc[q].mem, proc[q].call.buf),
                                                    total}))]
                      ELSE proc[q]]
        /\ UNCHANGED <<dim, fn, slice, inp>>

\* head of iteration p.i of Matmul_ABT_2p5D.forward: B_temp = B.clone() and the
\* broadcast of B_temp over the column group
ABT_iteration_inplace(p) ==
    LET c == Clone(p.mem, p.B, <<"B_temp", p.i>>)
    IN  Issue([p EXCEPT !.mem = c.mem, !.B_temp = c.t], "bcast", "broadcast",
              p.arg.col_parallel_mode, ABT_src_b(p.i, p.arg), c.t)

\* Matmul_ABT_2p5D.forward: assert, save_for_backward(A, B), the two reshapes,
\* C = torch.empty, then the head of iteration 0
ABT_forward_begin_inplace(rk) ==
    LET p == proc[rk]
        c == Alloc(p.mem, <<"C", 0>>,
                   Empty(<<View2D(p.A).shape[1], View2D(p.B).shape[1]>>))
        q == [p EXCEPT !.ctx = [saved_tensors |-> <<p.A, p.B>>],
                       !.A_shape = p.A.shape, !.B_shape = p.B.shape,
                       !.A = View2D(p.A), !.B = View2D(p.B),
                       !.mem = c.mem, !.C = c.t, !.i = 0]
    IN  /\ p.pc = "run" /\ p.f = "ABT" /\ p.at = "start"
        /\ proc' = [proc EXCEPT ![rk] =
                      IF ~ABT_ShapesOk(p.A, p.B) THEN [p EXCEPT !.pc = "failed"]
                      ELSE ABT_iteration_inplace(q)]
        /\ UNCHANGED <<dim, fn, slice, inp>>

\* C_temp = torch.matmul(A, B_temp.transpose(0, 1)): a new tensor, handed to the
\* reduce over the row group
ABT_forward_reduce_inplace(rk) ==
    LET p == proc[rk]
        c == Alloc(p.mem, <<"C_temp", p.i>>,
                   ABT_C_temp(Load(p.mem, p.A), Load(p.mem, p.B_temp)))
    IN  /\ p.pc = "run" /\ p.f = "ABT" /\ p.at = "bcast"
        /\ proc' = [proc EXCEPT ![rk] =
                      Issue([p EXCEPT !.mem = c.mem, !.C_temp = c.t], "reduce", "reduce",
                            p.arg.row_parallel_mode, ABT_src_c(p.i, p.arg), c.t)]
        /\ UNCHANGED <<dim, fn, slice, inp>>

\* the end of a matmul forward: out = C.reshape(out_shape), the ctx.* assignments
Return_inplace(p) ==
    [p EXCEPT !.pc = "returned", !.out = View(p.C, p.out_shape), !.ctx = SetCtx(p),
              !.call = NoCall]

\* if i == col_rank: C = C_temp.clone(); then the next iteration or the return
ABT_forward_next_inplace(rk) ==
    LET p == proc[rk]
        c == IF ABT_keeps(p.i, p.arg) THEN Clone(p.mem, p.C_temp, <<"C", p.i + 1>>)
             ELSE [mem |-> p.mem, t |-> p.C]
        q == [p EXCEPT !.mem = c.mem, !.C = c.t, !.i = p.i + 1]
    IN  /\ p.pc = "run" /\ p.f = "ABT" /\ p.at = "reduce"
        /\ proc' = [proc EXCEPT ![rk] =
                      IF q.i < q.arg.tesseract_dim THEN ABT_iteration_inplace(q)
                      ELSE Return_inplace(q)]
        /\ UNCHANGED <<dim, fn, slice, inp>>

\* head of iteration p.i of Matmul_ATB_2p5D.forward: A_temp = A.clone() and the
\* broadcast of A_temp over the row group
ATB_iteration_inplace(p) ==
    LET c == Clone(p.mem, p.A, <<"A_temp", p.i>>)
    IN  Issue([p EXCEPT !.mem = c.mem, !.A_temp = c.t], "bcast", "broadcast",
              p.arg.row_parallel_mode, ATB_src_a(p.i, p.arg), c.t)

\* Matmul_ATB_2p5D.forward: assert, save_for_backward(A, B), the two reshapes,
\* C = torch.empty, then the head of iteration 0
ATB_forward_begin_inplace(rk) ==
    LET p == proc[rk]
        c == Alloc(p.mem, <<"C", 0>>,
                   Empty(<<LastDim(p.A.shape), LastDim(p.B.shape)>>))
        q == [p EXCEPT !.ctx = [saved_tensors |-> <<p.A, p.B>>],
                       !.A_shape = p.A.shape, !.B_shape = p.B.shape,
                       !.A = View2D(p.A), !.B = View2D(p.B),
                       !.mem = c.mem, !.C = c.t, !.i = 0]
    IN  /\ p.pc = "run" /\ p.f = "ATB" /\ p.at = "start"
        /\ proc' = [proc EXCEPT ![rk] =
                      IF ~ATB_ShapesOk(p.A, p.B) THEN [p EXCEPT !.pc = "failed"]
                      ELSE ATB_iteration_inplace(q)]
        /\ UNCHANGED <<dim, fn, slice, inp>>

\* C_temp = torch.matmul(A_temp.transpose(0, 1), B): a new tensor, handed to the
\* reduce over the column group
ATB_forward_reduce_inplace(rk) ==
    LET p == proc[rk]
        c == Alloc(p.mem, <<"C_temp", p.i>>,
                   ATB_C_temp(Load(p.mem, p.A_temp), Load(p.mem, p.B)))
    IN  /\ p.pc = "run" /\ p.f = "ATB" /\ p.at = "bcast"
        /\ proc' = [proc EXCEPT ![rk] =
                      Issue([p EXCEPT !.mem = c.mem, !.C_temp = c.t], "reduce", "reduce",
                            p.arg.col_parallel_mode, ATB_src_c(p.i, p.arg), c.t)]
        /\ UNCHANGED <<dim, fn, slice, inp>>

\* if i == row_rank: C = C_temp.clone(); then the next iteration or the return
ATB_forward_next_inplace(rk) ==
    LET p == proc[rk]
        c == IF ATB_keeps(p.i, p.arg) THEN Clone(p.mem, p.C_temp, <<"C", p.i + 1>>)
             ELSE [mem |-> p.mem, t |-> p.C]
        q == [p EXCEPT !.mem = c.mem, !.C = c.t, !.i = p.i + 1]
    IN  /\ p.pc = "run" /\ p.f = "ATB" /\ p.at = "reduce"
        /\ proc' = [proc EXCEPT ![rk] =
                      IF q.i < q.arg.tesseract_dim THEN ATB_iteration_inplace(q)
                      ELSE Return_inplace(q)]
        /\ UNCHANGED <<dim, fn, slice, inp>>

\* Add_Bias_2p5D.forward up to the broadcast: bias_temp is bias.clone() on row 0
\* and torch.zeros(output_size_per_partition) elsewhere
Add_Bias_forward_broadcast_inplace(rk) ==
    LET p == proc[rk]
        c == IF p.arg.row_rank = 0 THEN Clone(p.mem, p.bias, <<"bias_temp", 0>>)
             ELSE Alloc(p.mem, <<"bias_temp", 0>>,
                        Zeros(<<p.arg.output_size_per_partition>>))
    IN  /\ p.pc = "run" /\ p.f = "Bias" /\ p.at = "start"
        /\ proc' = [proc EXCEPT ![rk] =
                      Issue([p EXCEPT !.mem = c.mem, !.bias_temp = c.t], "bcast",
                            "broadcast", p.arg.col_parallel_mode, Add_Bias_root(p.arg),
                            c.t)]
        /\ UNCHANGED <<dim, fn, slice, inp>>

\* the return of Add_Bias_2p5D.forward: bias_temp itself, or the new tensor
\* input + bias_temp
Add_Bias_forward_return_inplace(rk) ==
    LET p == proc[rk]
        c == IF p.arg.skip_bias_add THEN [mem |-> p.mem, t |-> p.bias_temp]
             ELSE Alloc(p.mem, <<"output", 0>>,
                        AddBias(Load(p.mem, p.input), Load(p.mem, p.bias_temp)))
    IN  /\ p.pc = "run" /\ p.f = "Bias" /\ p.at = "bcast"
        /\ proc' = [proc EXCEPT ![rk] =
                      [p EXCEPT !.pc = "returned", !.call = NoCall, !.mem = c.mem,
                                !.out = c.t,
                                !.ctx = [row_rank |-> p.arg.row_rank,
                                         col_rank |-> p.arg.col_rank,
                                         dep_rank |-> p.arg.dep_rank,
                                         tesseract_dim |-> p.arg.tesseract_dim,
                                         col_parallel_mode |-> p.arg.col_parallel_mode,
                                         bias |-> p.arg.skip_bias_add,
                                         data_parallel_rank |-> p.arg.data_parallel_rank,
                                         pipeline_parallel_rank |-> p.arg.pipeline_parallel_rank,
                                         pipeline_parallel_size |-> p.arg.pipeline_parallel_size,
                                         tensor_parallel_size |-> p.arg.tensor_parallel_size]]]
        /\ UNCHANGED <<dim, fn, slice, inp>>

\* the names of the tensor parameters of forward of Function f
CallerTensors(f) == SelectSeq(ForwardParams(f), LAMBDA n : n \in TensorParams)

\* the storages of the tensors the caller hands rank rk
CallerMem(rk) ==
    [st \in {CallerStorage(CallerTensors(fn)[k]) : k \in 1..2} |-> inp[rk][st[1]]]

\* the tensor parameter called name, as the caller passes it
CallerTensor(rk, name) == [st |-> CallerStorage(name), shape |-> inp[rk][name].shape]

\* a rank the engine has called a matmul forward on
MatmulBlank_inplace(rk) ==
    [pc |-> "run", at |-> "start", f |-> fn, arg |-> Metadata(rk), phase |-> 0,
     mem |-> CallerMem(rk), A |-> CallerTensor(rk, "A"), B |-> CallerTensor(rk, "B"),
     out_shape |-> OutShape(fn), A_shape |-> <<>>, B_shape |-> <<>>,
     A_temp |-> NoneT, B_temp |-> NoneT, C_temp |-> NoneT, C |-> NoneT, i |-> 0,
     call |-> NoCall, ctx |-> NoneT, out |-> NoneT]

\* a rank the engine has called Add_Bias_2p5D.forward on
BiasBlank_inplace(rk) ==
    [pc |-> "run", at |-> "start", f |-> fn,
     arg |-> BiasMetadata(rk, inp[rk].skip_bias_add),
     mem |-> CallerMem(rk), input |-> CallerTensor(rk, "input"),
     bias |-> CallerTensor(rk, "bias"), bias_temp |-> NoneT, i |-> 0,
     call |-> NoCall, ctx |-> NoneT, out |-> NoneT]

\* the engine has called forward of Matmul_ABT_2p5D, Matmul_ATB_2p5D or
\* Add_Bias_2p5D on every rank of a slice
StorageInit ==
    /\ dim \in 1..MaxDim
    /\ fn \in {"ABT", "ATB", "Bias"}
    /\ slice \in Slices
    /\ \E sa \in Supports(dim), sb \in Supports(dim), va \in 1..MaxVal,
          vb \in 1..MaxVal, skip \in BOOLEAN :
         inp = [rk \in Ranks(dim) |->
                  IF fn = "Bias"
                  THEN [input |-> TileOf(sa, va, rk, <<Batch, TileM, TileN>>, dim),
                        bias |-> TileOf(sb, vb, rk, <<TileN>>, dim),
                        skip_bias_add |-> skip]
                  ELSE [A |-> TileOf(sa, va, rk, ShapeA(fn), dim),
                        B |-> TileOf(sb, vb, rk, ShapeB(fn), dim)]]
    /\ proc = [rk \in Ranks(dim) |->
                 IF fn = "Bias" THEN BiasBlank_inplace(rk) ELSE MatmulBlank_inplace(rk)]

StorageNext ==
    \/ \E rk \in Ranks(dim) : ABT_forward_begin_inplace(rk)
    \/ \E rk \in Ranks(dim) : ABT_forward_reduce_inplace(rk)
    \/ \E rk \in Ranks(dim) : ABT_forward_next_inplace(rk)
    \/ \E rk \in Ranks(dim) : ATB_forward_begin_inplace(rk)
    \/ \E rk \in Ranks(dim) : ATB_forward_reduce_inplace(rk)
    \/ \E rk \in Ranks(dim) : ATB_forward_next_inplace(rk)
    \/ \E rk \in Ranks(dim) : Add_Bias_forward_broadcast_inplace(rk)
    \/ \E rk \in Ranks(dim) : Add_Bias_forward_return_inplace(rk)
    \/ \E mode \in {"ROW", "COL"}, rk \in Ranks(dim) : Broadcast_inplace(mode, rk)
    \/ \E mode \in {"ROW", "COL"}, rk \in Ranks(dim) : Reduce_inplace(mode, rk)

StorageSpec == StorageInit /\ [][StorageNext]_vars

\* the temporary forward of Function f hands to a collective of this kind
Temporary(f, kind) ==
    CASE f = "Bias" -> "bias_temp"
      [] kind = "reduce" -> "C_temp"
      [] f = "ABT" -> "B_temp"
      [] f = "ATB" -> "A_temp"

\* C21: Matmul_ABT_2p5D.forward, Matmul_ATB_2p5D.forward and Add_Bias_2p5D.forward
\* leave the tensors of their caller as they were, on every rank and at every
\* point of the call: every broadcast is handed the clone made in its iteration
\* (B_temp, A_temp) or bias_temp, every reduce the C_temp computed in its
\* iteration, none of which shares its storage with A, B, input or bias; so the
\* caller's tensors, and the tensors saved for backward, hold the values they had
\* before the call, on the source of a broadcast and on every other rank.
C21_InputsUnchanged ==
    \A rk \in Ranks(dim) :
       LET p == proc[rk]
           names == CallerTensors(fn)
       IN  /\ \A k \in 1..Len(names) :
                 p.mem[CallerStorage(names[k])] = inp[rk][names[k]]
           /\ p.pc = "wait" =>
                 /\ p.call.buf.st = <<Temporary(p.f, p.call.kind), p.i>>
                 /\ \A k \in 1..Len(names) : p.call.buf.st # CallerStorage(names[k])
           /\ (p.ctx # NoneT /\ p.f # "Bias") =>
                 /\ Len(p.ctx.saved_tensors) = 2
                 /\ \A k \in 1..2 :
                       Load(p.mem, p.ctx.saved_tensors[k]) = inp[rk][names[k]]

\* every rank has returned from a forward of two iterations, and on a rank that
\* was not the source of the broadcast of iteration 0 the temporary of that
\* iteration was overwritten with a value its own tensor does not hold
C21_Witness ==
    /\ dim = 2 /\ fn = "ABT"
    /\ \A rk \in Ranks(dim) : proc[rk].pc = "returned"
    /\ \E rk \in Ranks(dim) :
          /\ rk[1] # 0
          /\ proc[rk].mem[<<"B_temp", 0>>] # Load(proc[rk].mem, proc[rk].B)
          /\ proc[rk].mem[CallerStorage("B")] = inp[rk].B

====
